---- MODULE Spec2Model ----
(***************************************************************************)
(* The funding-arbitrage bot: the dual-leg trade executor                  *)
(* (trade_engine/executor.py), the venue adapter calls it makes            *)
(* (market_data_service/exchange.py), the trade ledger (database.py) and   *)
(* the HTTP entry point (main.py), and the screener's matcher              *)
(* (screener_engine/analyzer.py).                                          *)
(*                                                                         *)
(* One execution is a sequence of blocking calls; the model has one action *)
(* per blocking call, each followed by the local code that runs up to the  *)
(* next call or to the return.  Numbers are integers: quantities in        *)
(* tokens, prices and balances in USDT, funding rates in units of 0.0001.  *)
(* The margin test (q * p) / lev > avail is computed as q * p > avail*lev, *)
(* which is the same comparison for lev > 0.                               *)
(***************************************************************************)
EXTENDS Integers, Sequences, FiniteSets, TLC

(* ------------------------------------------------------------------ *)
(* Program constants                                                   *)
(* ------------------------------------------------------------------ *)
MAX_TOKENS == 5
MAX_NOTIONAL_USDT == 20
MARKET_DATA_CACHE_TTL_SECONDS == 60

(* ------------------------------------------------------------------ *)
(* Bounds of the model                                                 *)
(* ------------------------------------------------------------------ *)
MaxQuantity == 6
MaxLeverage == 2
MaxPrice == 8
MaxBalance == 10
MaxRate == 1
TickSeconds == 60
MaxNow == 61
MaxVenueFetches == 3

(* Python's None, and a present value v *)
None == <<>>
Some(v) == <<v>>
OrZero(o) == IF o = None THEN 0 ELSE o[1]

Symbols == {"BTC/USDT"}
\* a non-positive quantity, a small one, the token cap, and one above the cap
Quantities == {0, 1, MAX_TOKENS, MaxQuantity}
Leverages == 0..MaxLeverage
PriceValues == {0, MaxPrice \div 2, MaxPrice}
Prices == {None} \cup {Some(p) : p \in PriceValues}
BalanceValues == {0, MaxBalance}
Rates == {None} \cup {Some(r) : r \in 0..MaxRate}

Max(a, b) == IF a >= b THEN a ELSE b

VARIABLES
    cache,          \* _MARKET_DATA_CACHE: None or Some(snapshot)
    cache_ts,       \* _MARKET_DATA_CACHE_TS
    now,            \* time.monotonic()
    ledger,         \* rows of the trades table, oldest first
    ledger0,        \* the ledger as it was when the execution started
    pc,             \* position of the execution
    req,            \* the request: symbol, quantity, leverage, simulate_failure
    dirs,           \* kucoin_direction, bybit_direction
    prices,         \* kucoin_price, bybit_price
    balances,       \* the two get_wallet_balance results (None before)
    res_a,          \* result of place_market_order on KuCoin (None before)
    res_b,          \* result of place_market_order on Bybit (None when not called)
    exchange_b_ok,  \* the flag of step 2
    close_res,      \* result of close_position (None before)
    logs,           \* the logs list of the execution
    response,       \* what the caller got
    calls,          \* the calls the venue adapters received since the request came in
    fetchers,       \* threads of the server's pool inside fetch_all_market_data
    traders         \* threads of the server's pool inside execute_dual_trade

vars == <<cache, cache_ts, now, ledger, ledger0, pc, req, dirs, prices, balances,
          res_a, res_b, exchange_b_ok, close_res, logs, response, calls,
          fetchers, traders>>

poolVars == <<fetchers, traders>>

(* ------------------------------------------------------------------ *)
(* Market snapshot (exchange.py)                                       *)
(* ------------------------------------------------------------------ *)
\* one row of a venue's symbols list, as _row builds it
Row(symbol, rate) ==
    [symbol |-> symbol, funding_rate |-> rate,
     next_funding_time |-> None, funding_interval |-> Some(8)]

\* a row with every field given
RowWith(symbol, rate, next_funding_time, funding_interval) ==
    [symbol |-> symbol, funding_rate |-> rate,
     next_funding_time |-> next_funding_time, funding_interval |-> funding_interval]

RowLists == {<<>>} \cup {<<Row(s, r)>> : s \in Symbols, r \in Rates}

\* what _fetch_usdt_perpetuals_for_exchange can do: raise, or return a list
VenueFetchResults ==
    {[raised |-> TRUE, rows |-> <<>>]} \cup
    {[raised |-> FALSE, rows |-> rs] : rs \in RowLists}

\* one venue's section of the summary
Section(f) ==
    IF f.raised
    THEN [symbols_count |-> 0, symbols |-> <<>>, error |-> Some("fetch failed")]
    ELSE [symbols_count |-> Len(f.rows), symbols |-> f.rows, error |-> None]

\* mutant: one failed venue fails the whole refresh
SummaryAllOrNothing(fk, fb) ==
    IF fk.raised \/ fb.raised
    THEN [kucoin |-> Section([raised |-> TRUE, rows |-> <<>>]),
          bybit |-> Section([raised |-> TRUE, rows |-> <<>>])]
    ELSE [kucoin |-> Section(fk), bybit |-> Section(fb)]

Summary(fk, fb) == [kucoin |-> Section(fk), bybit |-> Section(fb)]

\* mutant: a snapshot of age TTL is still served
CacheFreshInclusive ==
    cache # None /\ (now - cache_ts) <= MARKET_DATA_CACHE_TTL_SECONDS

\* the cache test of fetch_all_market_data
CacheFresh ==
    cache # None /\ (now - cache_ts) < MARKET_DATA_CACHE_TTL_SECONDS

\* {r["symbol"]: r for r in list}.get(symbol, {}).get("funding_rate"):
\* the last row of that symbol wins, an absent symbol gives None
FundingRateOf(list, symbol) ==
    LET idx == {i \in 1..Len(list) : list[i].symbol = symbol}
    IN  IF idx = {} THEN None
        ELSE list[CHOOSE i \in idx : \A j \in idx : j <= i].funding_rate

(* ------------------------------------------------------------------ *)
(* Screener (analyzer.py)                                              *)
(* ------------------------------------------------------------------ *)
\* the symbols the model knows, in the order sorted() gives them
SymbolOrder == <<"BTC/USDT", "ETH/USDT", "SOL/USDT">>

\* {row["symbol"]: row for row in list}: the symbols that are keys
SymbolsOf(list) == {list[i].symbol : i \in 1..Len(list)}

\* {row["symbol"]: row for row in list}[symbol]: the last row of the symbol
RowBySymbol(list, symbol) ==
    LET idx == {i \in 1..Len(list) : list[i].symbol = symbol}
    IN  list[CHOOSE i \in idx : \A j \in idx : j <= i]

Abs(x) == IF x < 0 THEN -x ELSE x

\* mutant: the rates are subtracted, KuCoin's first
GrossSpreadSigned(kr, br) == kr - br

\* abs(kr - br)
GrossSpread(kr, br) == Abs(kr - br)

RecommendedAction(kr, br) ==
    IF kr > br THEN "KuCoin: Short / Bybit: Long" ELSE "KuCoin: Long / Bybit: Short"

\* mutant: intervals that are both known match
IntervalsMatchAnyKnown(kucoin_interval, bybit_interval) ==
    kucoin_interval # None /\ bybit_interval # None

\* neither interval is None and they are equal
IntervalsMatch(kucoin_interval, bybit_interval) ==
    /\ kucoin_interval # None /\ bybit_interval # None
    /\ kucoin_interval = bybit_interval

\* mutant: KuCoin's next funding time is taken first
NextFundingTimeKucoinFirst(bybit_next, kucoin_next) ==
    IF kucoin_next # None THEN kucoin_next ELSE bybit_next

\* bybit_next or kucoin_next: a time is an ISO string, never empty
NextFundingTime(bybit_next, kucoin_next) ==
    IF bybit_next # None THEN bybit_next ELSE kucoin_next

\* the entry of one common symbol, or nothing when the symbol is skipped
OpportunityOf(k, b) ==
    IF k.funding_rate = None \/ b.funding_rate = None THEN <<>>
    ELSE IF ~IntervalsMatch(k.funding_interval, b.funding_interval) THEN <<>>
    ELSE <<[symbol |-> k.symbol,
            kucoin_rate |-> k.funding_rate[1],
            bybit_rate |-> b.funding_rate[1],
            kucoin_funding_interval |-> k.funding_interval[1],
            bybit_funding_interval |-> b.funding_interval[1],
            gross_spread |-> GrossSpread(k.funding_rate[1], b.funding_rate[1]),
            recommended_action |-> RecommendedAction(k.funding_rate[1], b.funding_rate[1]),
            next_funding_time |-> NextFundingTime(b.next_funding_time,
                                                  k.next_funding_time)]>>

RECURSIVE OpportunitiesFrom(_, _, _)
\* the loop over sorted(common), from position i of SymbolOrder
OpportunitiesFrom(kucoin_list, bybit_list, i) ==
    IF i > Len(SymbolOrder) THEN <<>>
    ELSE LET symbol == SymbolOrder[i]
             rest == OpportunitiesFrom(kucoin_list, bybit_list, i + 1)
         IN  IF symbol \in SymbolsOf(kucoin_list) \cap SymbolsOf(bybit_list)
             THEN OpportunityOf(RowBySymbol(kucoin_list, symbol),
                                RowBySymbol(bybit_list, symbol)) \o rest
             ELSE rest

\* mutant: the matcher's results list outlives the call
OpportunitiesKeptBetweenCalls(data) ==
    (IF response.kind = "opportunities" THEN response.data ELSE <<>>)
        \o OpportunitiesFrom(data.kucoin.symbols, data.bybit.symbols, 1)

\* get_arbitrage_opportunities on the snapshot data
Opportunities(data) ==
    OpportunitiesFrom(data.kucoin.symbols, data.bybit.symbols, 1)

(* ------------------------------------------------------------------ *)
(* Executor helpers (executor.py)                                      *)
(* ------------------------------------------------------------------ *)
\* mutant: on equal rates KuCoin is the short side
DirectionsShortOnTie(data, symbol) ==
    LET kr == FundingRateOf(data.kucoin.symbols, symbol)
        br == FundingRateOf(data.bybit.symbols, symbol)
    IN  IF kr # None /\ br # None /\ kr[1] >= br[1]
        THEN [kucoin |-> "Short", bybit |-> "Long"]
        ELSE [kucoin |-> "Long", bybit |-> "Short"]

\* _get_directions_and_prices, lines 28-41, on the snapshot data
Directions(data, symbol) ==
    LET kr == FundingRateOf(data.kucoin.symbols, symbol)
        br == FundingRateOf(data.bybit.symbols, symbol)
    IN  IF kr # None /\ br # None
        THEN IF kr[1] > br[1]
             THEN [kucoin |-> "Short", bybit |-> "Long"]
             ELSE [kucoin |-> "Long", bybit |-> "Short"]
        ELSE [kucoin |-> "Long", bybit |-> "Short"]

\* mutant: every order is a buy
OrderSideAlwaysBuy(direction) == "buy"

OrderSide(direction) == IF direction = "Short" THEN "sell" ELSE "buy"

\* mutant: only KuCoin's mark price is looked at
PriceUnavailableKucoinOnly(kucoin_price, bybit_price) ==
    OrZero(kucoin_price) <= 0

\* price_k <= 0 or price_b <= 0, with price = float(p or 0)
PriceUnavailable(kucoin_price, bybit_price) ==
    OrZero(kucoin_price) <= 0 \/ OrZero(bybit_price) <= 0

\* mutant: the quantity <= 0 test is missing
ValidateAmountLimitNoPositive(quantity, kucoin_price, bybit_price) ==
    LET max_price == Max(OrZero(kucoin_price), OrZero(bybit_price))
    IN  IF quantity > MAX_TOKENS
        THEN [ok |-> FALSE, msg |-> "Token quantity exceeds limit"]
        ELSE IF max_price > 0 /\ (quantity * max_price) > MAX_NOTIONAL_USDT
        THEN [ok |-> FALSE, msg |-> "Notional exceeds limit"]
        ELSE [ok |-> TRUE, msg |-> ""]

\* mutant: the notional test is missing
ValidateAmountLimitNoNotional(quantity, kucoin_price, bybit_price) ==
    IF quantity <= 0
    THEN [ok |-> FALSE, msg |-> "Token quantity must be positive"]
    ELSE IF quantity > MAX_TOKENS
    THEN [ok |-> FALSE, msg |-> "Token quantity exceeds limit"]
    ELSE [ok |-> TRUE, msg |-> ""]

\* mutant: a quantity or a notional equal to its cap is refused
ValidateAmountLimitStrictCaps(quantity, kucoin_price, bybit_price) ==
    LET max_price == Max(OrZero(kucoin_price), OrZero(bybit_price))
    IN  IF quantity <= 0
        THEN [ok |-> FALSE, msg |-> "Token quantity must be positive"]
        ELSE IF quantity >= MAX_TOKENS
        THEN [ok |-> FALSE, msg |-> "Token quantity exceeds limit"]
        ELSE IF max_price > 0 /\ (quantity * max_price) >= MAX_NOTIONAL_USDT
        THEN [ok |-> FALSE, msg |-> "Notional exceeds limit"]
        ELSE [ok |-> TRUE, msg |-> ""]

ValidateAmountLimit(quantity, kucoin_price, bybit_price) ==
    LET pk == OrZero(kucoin_price)
        pb == OrZero(bybit_price)
        max_price == Max(pk, pb)
    IN  IF quantity <= 0
        THEN [ok |-> FALSE, msg |-> "Token quantity must be positive"]
        ELSE IF quantity > MAX_TOKENS
        THEN [ok |-> FALSE, msg |-> "Token quantity exceeds limit"]
        ELSE IF max_price > 0 /\ (quantity * max_price) > MAX_NOTIONAL_USDT
        THEN [ok |-> FALSE, msg |-> "Notional exceeds limit"]
        ELSE [ok |-> TRUE, msg |-> ""]

\* an error field is truthy when it is a non-empty string
Truthy(err) == err # None /\ err[1] # ""

\* margin > avail, with margin = (quantity * price) / leverage for
\* leverage > 0 and infinity otherwise
MarginExceeds(quantity, price, leverage, avail) ==
    IF leverage > 0 THEN quantity * price > avail * leverage ELSE TRUE

\* mutant: only KuCoin's margin is compared with its balance
ValidateBalanceKucoinOnly(quantity, leverage, kucoin_price, bybit_price, kucoin, bybit) ==
    IF Truthy(kucoin.error)
    THEN [ok |-> FALSE, msg |-> "KuCoin balance error"]
    ELSE IF Truthy(bybit.error)
    THEN [ok |-> FALSE, msg |-> "Bybit balance error"]
    ELSE IF MarginExceeds(quantity, OrZero(kucoin_price), leverage, kucoin.available_balance)
    THEN [ok |-> FALSE, msg |-> "Insufficient balance: KuCoin"]
    ELSE [ok |-> TRUE, msg |-> ""]

\* mutant: a balance that could not be read is not held against the request
ValidateBalanceErrorsPass(quantity, leverage, kucoin_price, bybit_price, kucoin, bybit) ==
    LET pk == OrZero(kucoin_price)
        pb == OrZero(bybit_price)
    IN  IF pk <= 0 \/ pb <= 0
        THEN [ok |-> FALSE, msg |-> "Could not get mark price"]
        ELSE IF kucoin.error # None \/ bybit.error # None
        THEN [ok |-> TRUE, msg |-> ""]
        ELSE IF MarginExceeds(quantity, pk, leverage, kucoin.available_balance)
        THEN [ok |-> FALSE, msg |-> "Insufficient balance: KuCoin"]
        ELSE IF MarginExceeds(quantity, pb, leverage, bybit.available_balance)
        THEN [ok |-> FALSE, msg |-> "Insufficient balance: Bybit"]
        ELSE [ok |-> TRUE, msg |-> ""]

\* _validate_balance; kucoin and bybit are the two get_wallet_balance results,
\* which are read only when both prices are positive
ValidateBalance(quantity, leverage, kucoin_price, bybit_price, kucoin, bybit) ==
    LET pk == OrZero(kucoin_price)
        pb == OrZero(bybit_price)
    IN  IF pk <= 0 \/ pb <= 0
        THEN [ok |-> FALSE, msg |-> "Could not get mark price"]
        ELSE IF Truthy(kucoin.error)
        THEN [ok |-> FALSE, msg |-> "KuCoin balance error"]
        ELSE IF Truthy(bybit.error)
        THEN [ok |-> FALSE, msg |-> "Bybit balance error"]
        ELSE IF MarginExceeds(quantity, pk, leverage, kucoin.available_balance)
        THEN [ok |-> FALSE, msg |-> "Insufficient balance: KuCoin"]
        ELSE IF MarginExceeds(quantity, pb, leverage, bybit.available_balance)
        THEN [ok |-> FALSE, msg |-> "Insufficient balance: Bybit"]
        ELSE [ok |-> TRUE, msg |-> ""]

(* ------------------------------------------------------------------ *)
(* Venue adapter calls (exchange.py)                                   *)
(* ------------------------------------------------------------------ *)
\* what get_wallet_balance can return: keys missing, a caught exception
\* (whose text may be empty), or the free USDT balance
BalanceResults ==
    {[available_balance |-> 0, error |-> Some(e)] :
        e \in {"API keys not configured", ""}} \cup
    {[available_balance |-> b, error |-> None] : b \in BalanceValues}

\* what the venue does during one place_market_order call: load_markets
\* returns or raises, the symbol is listed or not, and each submission of
\* the order returns, raises the transient error or raises another one
KucoinPlaceEnvs ==
    [keys : BOOLEAN, markets : {"ok", "error"}, listed : BOOLEAN,
     first : {"ok", "transient", "error"}, second : {"ok", "error"}]
\* Bybit can answer with the same "does not exist" text as KuCoin
BybitPlaceEnvs ==
    [keys : BOOLEAN, markets : {"ok", "error"}, listed : BOOLEAN,
     first : {"ok", "transient", "error"}, second : {"ok"}]

Failure(text, n) ==
    [success |-> FALSE, error |-> Some(text), order_id |-> None, submissions |-> n]
Placed(n) ==
    [success |-> TRUE, error |-> None, order_id |-> Some("order"), submissions |-> n]

\* mutant: KuCoin's order is sent again after any error of the first submission
PlaceMarketOrderRetryAnyError(exchange_name, amount_base, env) ==
    IF ~env.keys THEN Failure("API keys not configured", 0)
    ELSE IF env.markets = "error" THEN Failure("venue error", 0)
    ELSE IF amount_base <= 0 THEN Failure("Amount must be positive", 0)
    ELSE IF ~env.listed THEN Failure("Symbol not found", 0)
    ELSE IF env.first = "ok" THEN Placed(1)
    ELSE IF exchange_name = "kucoin"
    THEN IF env.second = "ok" THEN Placed(2) ELSE Failure("venue error", 2)
    ELSE Failure("venue error", 1)

\* mutant: the except at the end returns the result without the error text
PlaceMarketOrderErrorDropped(exchange_name, amount_base, env) ==
    LET Raised(n) == [success |-> FALSE, error |-> None, order_id |-> None,
                      submissions |-> n]
    IN  IF ~env.keys THEN Failure("API keys not configured", 0)
        ELSE IF env.markets = "error" THEN Raised(0)
        ELSE IF amount_base <= 0 THEN Failure("Amount must be positive", 0)
        ELSE IF ~env.listed THEN Failure("Symbol not found", 0)
        ELSE IF env.first = "ok" THEN Placed(1)
        ELSE IF exchange_name = "kucoin" /\ env.first = "transient"
        THEN IF env.second = "ok" THEN Placed(2) ELSE Raised(2)
        ELSE Raised(1)

\* place_market_order; submissions counts the order requests sent; an
\* exception raised inside it ends in the except at lines 589-591
PlaceMarketOrder(exchange_name, amount_base, env) ==
    IF ~env.keys THEN Failure("API keys not configured", 0)
    ELSE IF env.markets = "error" THEN Failure("venue error", 0)
    ELSE IF amount_base <= 0 THEN Failure("Amount must be positive", 0)
    ELSE IF ~env.listed
    THEN Failure(IF exchange_name = "kucoin"
                 THEN "not in the active KuCoin Futures list"
                 ELSE "Symbol not found", 0)
    ELSE IF exchange_name = "kucoin"
    THEN IF env.first = "ok" THEN Placed(1)
         ELSE IF env.first = "transient"
         THEN IF env.second = "ok" THEN Placed(2)
              ELSE Failure("venue error", 2)
         ELSE Failure("venue error", 1)
    ELSE IF env.first = "ok" THEN Placed(1)
         ELSE Failure("venue error", 1)

\* what the venue does during one close_position call
CloseEnvs ==
    [keys : BOOLEAN, markets : {"ok", "error"}, listed : BOOLEAN,
     active : BOOLEAN, order : {"ok", "error"}]

CloseSide(side) == IF side = "buy" THEN "sell" ELSE "buy"

\* close_position: sent is the side of the reduce-only order, when one was sent
ClosePosition(exchange_name, side, amount_base, env) ==
    IF ~env.keys
    THEN [success |-> FALSE, error |-> Some("API keys not configured"), sent |-> None]
    ELSE IF env.markets = "error"
    THEN [success |-> FALSE, error |-> Some("venue error"), sent |-> None]
    ELSE IF ~env.listed
    THEN [success |-> FALSE, error |-> Some("Symbol not found"), sent |-> None]
    ELSE IF exchange_name = "kucoin" /\ ~env.active
    THEN [success |-> FALSE, error |-> Some("Invalid futures symbol"), sent |-> None]
    ELSE IF env.order = "ok"
    THEN [success |-> TRUE, error |-> None, sent |-> Some(CloseSide(side))]
    ELSE [success |-> FALSE, error |-> Some("venue error"), sent |-> Some(CloseSide(side))]

\* an entry of the spy on the venue adapters
Call(venue, op, side, qty, sent) ==
    [venue |-> venue, op |-> op, side |-> side, qty |-> qty, sent |-> sent]

\* the spy's entry of a place_market_order call, which also has a leverage
PlaceCall(venue, side, qty, leverage, sent) ==
    [leverage |-> leverage] @@ Call(venue, "place", side, qty, sent)

(* ------------------------------------------------------------------ *)
(* Trade ledger (database.py)                                          *)
(* ------------------------------------------------------------------ *)
\* mutant: the ids start again at 1 with every insert
NextIdRestarting(rows) == 1

\* AUTOINCREMENT: one more than the largest id
NextId(rows) == IF rows = <<>> THEN 1 ELSE rows[Len(rows)].id + 1

TradeRow(id, symbol, quantity, leverage, kd, bd, kp, bp, status) ==
    [id |-> id, token_group_id |-> symbol, quantity |-> quantity,
     leverage |-> leverage, kucoin_direction |-> kd, bybit_direction |-> bd,
     kucoin_entry_price |-> kp, bybit_entry_price |-> bp, status |-> status]

\* a row written by an earlier run of the program
SeedTrade ==
    TradeRow(1, "BTC/USDT", 1, 1, "Long", "Short", Some(MaxPrice), Some(MaxPrice), "OPEN")

InitialLedgers == {<<>>, <<SeedTrade>>}

RECURSIVE OrderByIdDesc(_)
\* ORDER BY id DESC
OrderByIdDesc(rows) ==
    IF rows = <<>> THEN <<>>
    ELSE LET i == CHOOSE i \in 1..Len(rows) :
                      \A j \in 1..Len(rows) : rows[j].id <= rows[i].id
         IN  <<rows[i]>> \o OrderByIdDesc(SubSeq(rows, 1, i - 1) \o
                                           SubSeq(rows, i + 1, Len(rows)))

\* database.get_recent_trades: SELECT ... ORDER BY id DESC LIMIT ?; SQLite
\* takes a negative LIMIT as no limit
GetRecentTrades(rows, limit) ==
    LET sorted == OrderByIdDesc(rows)
    IN  IF limit < 0 THEN sorted
        ELSE SubSeq(sorted, 1, IF limit < Len(sorted) THEN limit ELSE Len(sorted))


(* ------------------------------------------------------------------ *)
(* Responses and log entries                                           *)
(* ------------------------------------------------------------------ *)
NoResponse == [kind |-> "none"]
Result(success, status, message) ==
    [kind |-> "result", success |-> success, status |-> status, message |-> message]
\* main.execute_trade raises HTTPException(400): the caller gets {"detail": ...}
Http400(detail) == [kind |-> "http400", detail |-> detail]
\* an exception that leaves execute_dual_trade
Unhandled(error) == [kind |-> "exception", error |-> error]

\* mutant: the entries do not tell a failed step from one that went through
LogEntryWithoutOutcome(who, step, outcome, detail) ==
    [who |-> who, step |-> step, outcome |-> "OK", detail |-> detail]

\* one line of logs: "[who] step ... -- OK" or "-- FAILED: detail"
LogEntry(who, step, outcome, detail) ==
    [who |-> who, step |-> step, outcome |-> outcome, detail |-> detail]

NoRequest == [symbol |-> "", quantity |-> 0, leverage |-> 0, simulate_failure |-> FALSE]
NoDirs == [kucoin |-> "", bybit |-> ""]
NoPrices == [kucoin_price |-> None, bybit_price |-> None]

InvalidSymbols == {"BTCUSDT"}

(* ------------------------------------------------------------------ *)
(* Threads of the server's pool: the handlers are plain functions, so   *)
(* the server runs each request on a thread of its pool and requests    *)
(* that arrive together run together                                   *)
(* ------------------------------------------------------------------ *)
Threads == {"t1", "t2"}

\* summary as fetch_all_market_data starts it
EmptySummary ==
    [kucoin |-> [symbols_count |-> 0, symbols |-> <<>>, error |-> None],
     bybit |-> [symbols_count |-> 0, symbols |-> <<>>, error |-> None]]

\* a thread's locals in fetch_all_market_data: its position, its now, its
\* summary, and what it returned
IdleFetcher == [pc |-> "idle", t |-> 0, summary |-> EmptySummary, got |-> None]

\* a thread's locals in execute_dual_trade: its position, its symbol, the
\* flag of step 2 and the status it returned
IdleTrader == [pc |-> "idle", symbol |-> "", exchange_b_ok |-> TRUE, status |-> "none"]

TradeSymbols == {"BTC/USDT", "ETH/USDT"}

(* ------------------------------------------------------------------ *)
(* Initial state: the module globals as exchange.py sets them, the     *)
(* trades table as an earlier run left it, no request yet              *)
(* ------------------------------------------------------------------ *)
Init ==
    /\ cache = None
    /\ cache_ts = 0
    /\ now = 0
    /\ ledger \in InitialLedgers
    /\ ledger0 = ledger
    /\ pc = "idle"
    /\ req = NoRequest
    /\ dirs = NoDirs
    /\ prices = NoPrices
    /\ balances = None
    /\ res_a = None
    /\ res_b = None
    /\ exchange_b_ok = TRUE
    /\ close_res = None
    /\ logs = <<>>
    /\ response = NoResponse
    /\ calls = <<>>
    /\ fetchers = [w \in Threads |-> IdleFetcher]
    /\ traders = [w \in Threads |-> IdleTrader]

execVars == <<ledger, ledger0, pc, req, dirs, prices, balances, res_a, res_b,
              exchange_b_ok, close_res, logs, response>>

\* the instants after the start at which the model looks at the clock
Instants == {TickSeconds - 1, TickSeconds, MaxNow - 1, MaxNow}

\* time passes between requests
Tick ==
    /\ pc = "idle"
    /\ \E t \in Instants :
         /\ t > now
         /\ now' = t
    /\ UNCHANGED <<cache, cache_ts, calls>>
    /\ UNCHANGED execVars
    /\ UNCHANGED poolVars

\* fetch_all_market_data: the cached snapshot is kept, or both venues are
\* fetched, each fetch ending as one of the given results, and the summary
\* is stored; either way the caller gets the snapshot the cache holds
\* afterwards; the spy keeps each fetch result
FetchAllMarketDataOf(results) ==
    \/ /\ CacheFresh
       /\ UNCHANGED <<cache, cache_ts, calls>>
    \/ /\ ~CacheFresh
       /\ \E fk \in results, fb \in results :
            /\ cache' = Some(Summary(fk, fb))
            /\ calls' = calls \o <<Call("kucoin", "snapshot", "-", 0, Some(fk)),
                                   Call("bybit", "snapshot", "-", 0, Some(fb))>>
       /\ cache_ts' = now

\* fetch_all_market_data returning data
FetchAllMarketData(data) ==
    /\ FetchAllMarketDataOf(VenueFetchResults)
    /\ data = cache'[1]

Snapshots == {Summary(fk, fb) : fk \in VenueFetchResults, fb \in VenueFetchResults}

\* what get_market_data returns: per venue the count and the error; at is the
\* time the handler answered
MarketDataResponse(data) ==
    [kind |-> "market_data", at |-> now,
     kucoin |-> [symbols_count |-> data.kucoin.symbols_count, error |-> data.kucoin.error],
     bybit |-> [symbols_count |-> data.bybit.symbols_count, error |-> data.bybit.error]]

\* GET /api/market-data
GetMarketData ==
    /\ pc = "idle"
    /\ \E data \in Snapshots \cup (IF cache = None THEN {} ELSE {cache[1]}) :
         /\ FetchAllMarketData(data)
         /\ response' = MarketDataResponse(data)
    /\ UNCHANGED <<now, ledger, ledger0, pc, req, dirs, prices, balances, res_a,
                   res_b, exchange_b_ok, close_res, logs>>
    /\ UNCHANGED poolVars

\* entry of execute_dual_trade
Begin(symbol, quantity, leverage, simulate_failure) ==
    /\ req' = [symbol |-> symbol, quantity |-> quantity, leverage |-> leverage,
               simulate_failure |-> simulate_failure]
    /\ ledger0' = ledger
    /\ pc' = "resolve"
    /\ calls' = <<>>
    /\ response' = NoResponse
    /\ UNCHANGED <<cache, cache_ts, now, ledger, dirs, prices, balances, res_a,
                   res_b, exchange_b_ok, close_res, logs>>
    /\ UNCHANGED poolVars

\* symbol is non-empty and holds a "/"
ValidSymbol(symbol) == symbol # "" /\ symbol \notin InvalidSymbols

\* body.quantity <= 0 or body.leverage <= 0
NonPositive(quantity, leverage) == quantity <= 0 \/ leverage <= 0

\* raise HTTPException(status_code=400): the executor is not called
Reject400(symbol, quantity, leverage, simulate_failure, detail) ==
    /\ response' = Http400(detail)
    /\ pc' = "http400"
    /\ req' = [symbol |-> symbol, quantity |-> quantity, leverage |-> leverage,
               simulate_failure |-> simulate_failure]
    /\ calls' = <<>>
    /\ ledger0' = ledger
    /\ UNCHANGED <<cache, cache_ts, now, ledger, dirs, prices, balances, res_a,
                   res_b, exchange_b_ok, close_res, logs>>
    /\ UNCHANGED poolVars

\* POST /api/execute-trade
ExecuteTrade ==
    /\ pc = "idle"
    /\ \E symbol \in Symbols \cup InvalidSymbols, quantity \in Quantities,
          leverage \in Leverages, simulate_failure \in BOOLEAN :
         IF ~ValidSymbol(symbol)
         THEN Reject400(symbol, quantity, leverage, simulate_failure, "Invalid symbol")
         ELSE IF NonPositive(quantity, leverage)
         THEN Reject400(symbol, quantity, leverage, simulate_failure,
                        "quantity and leverage must be positive")
         ELSE Begin(symbol, quantity, leverage, simulate_failure)

\* TradeExecutor.execute_dual_trade called with arguments from the given sets
ExecuteDualTradeOf(quantities, leverages) ==
    /\ pc = "idle"
    /\ \E symbol \in Symbols, quantity \in quantities,
          leverage \in leverages, simulate_failure \in BOOLEAN :
         Begin(symbol, quantity, leverage, simulate_failure)

\* TradeExecutor.execute_dual_trade called with any arguments
ExecuteDualTrade == ExecuteDualTradeOf(Quantities, Leverages)

\* return {...}: the response and the logs handed to the caller
Return(success, status, message, logs_out) ==
    /\ response' = Result(success, status, message)
    /\ logs' = logs_out
    /\ pc' = "done"

\* _get_directions_and_prices, lines 28-41
ResolveDirections ==
    /\ pc = "resolve"
    /\ \E data \in Snapshots :
         /\ FetchAllMarketData(data)
         /\ dirs' = Directions(data, req.symbol)
    /\ pc' = "prices"
    /\ UNCHANGED <<now, ledger, ledger0, req, prices, balances, res_a, res_b,
                   exchange_b_ok, close_res, logs, response>>
    /\ UNCHANGED poolVars

\* get_mark_prices_for_symbol answering from the given set, then the price
\* check and _validate_amount_limit
GetMarkPricesOf(answers) ==
    /\ pc = "prices"
    /\ \E pk \in answers, pb \in answers :
         LET limit == ValidateAmountLimit(req.quantity, pk, pb)
         IN  /\ prices' = [kucoin_price |-> pk, bybit_price |-> pb]
             /\ IF PriceUnavailable(pk, pb)
                THEN Return(FALSE, "null", "Could not get mark price for symbol", <<>>)
                ELSE IF ~limit.ok
                THEN Return(FALSE, "null", limit.msg,
                            <<LogEntry("-", "validate", "FAILED", limit.msg)>>)
                ELSE /\ pc' = "balance"
                     /\ UNCHANGED <<logs, response>>
    /\ calls' = calls \o <<Call("kucoin", "price", "-", 0, None),
                           Call("bybit", "price", "-", 0, None)>>
    /\ UNCHANGED <<cache, cache_ts, now, ledger, ledger0, req, dirs, balances,
                   res_a, res_b, exchange_b_ok, close_res>>
    /\ UNCHANGED poolVars

GetMarkPrices == GetMarkPricesOf(Prices)

\* mutant: a request refused by the balance check is written to the ledger
CheckBalanceRecordingRefusals(answers) ==
    /\ pc = "balance"
    /\ \E kucoin \in answers, bybit \in answers :
         LET v == ValidateBalance(req.quantity, req.leverage, prices.kucoin_price,
                                  prices.bybit_price, kucoin, bybit)
         IN  /\ balances' = Some([kucoin |-> kucoin, bybit |-> bybit])
             /\ IF ~v.ok
                THEN /\ Return(FALSE, "null", v.msg,
                               <<LogEntry("-", "validate", "FAILED", v.msg)>>)
                     /\ ledger' = Append(ledger,
                            TradeRow(NextId(ledger), req.symbol, req.quantity,
                                     req.leverage, dirs.kucoin, dirs.bybit,
                                     prices.kucoin_price, prices.bybit_price,
                                     "REJECTED"))
                ELSE /\ pc' = "legA"
                     /\ UNCHANGED <<logs, response, ledger>>
    /\ calls' = calls \o <<Call("kucoin", "balance", "-", 0, None),
                           Call("bybit", "balance", "-", 0, None)>>
    /\ UNCHANGED <<cache, cache_ts, now, ledger0, req, dirs, prices,
                   res_a, res_b, exchange_b_ok, close_res>>
    /\ UNCHANGED poolVars

\* _validate_balance with its two get_wallet_balance calls, which answer
\* from the given set
CheckBalanceOf(answers) ==
    /\ pc = "balance"
    /\ \E kucoin \in answers, bybit \in answers :
         LET v == ValidateBalance(req.quantity, req.leverage, prices.kucoin_price,
                                  prices.bybit_price, kucoin, bybit)
         IN  /\ balances' = Some([kucoin |-> kucoin, bybit |-> bybit])
             /\ IF ~v.ok
                THEN Return(FALSE, "null", v.msg,
                            <<LogEntry("-", "validate", "FAILED", v.msg)>>)
                ELSE /\ pc' = "legA"
                     /\ UNCHANGED <<logs, response>>
    /\ calls' = IF OrZero(prices.kucoin_price) <= 0 \/ OrZero(prices.bybit_price) <= 0
                THEN calls
                ELSE calls \o <<Call("kucoin", "balance", "-", 0, None),
                                Call("bybit", "balance", "-", 0, None)>>
    /\ UNCHANGED <<cache, cache_ts, now, ledger, ledger0, req, dirs, prices,
                   res_a, res_b, exchange_b_ok, close_res>>
    /\ UNCHANGED poolVars

CheckBalance == CheckBalanceOf(BalanceResults)

\* mutant: the result of leg A is not looked at
LegAFailedIgnored(r) == FALSE

\* if not res_a.get("success")
LegAFailed(r) == ~r.success

\* step 1: place_market_order on KuCoin
PlaceLegA ==
    /\ pc = "legA"
    /\ \E env \in KucoinPlaceEnvs :
         LET r == PlaceMarketOrder("kucoin", req.quantity, env)
         IN  /\ res_a' = Some(r)
             /\ IF LegAFailed(r)
                THEN Return(FALSE, "null", "KuCoin order failed: " \o r.error[1],
                            Append(logs, LogEntry("KuCoin", "place", "FAILED", r.error[1])))
                ELSE /\ logs' = Append(logs, LogEntry("KuCoin", "place", "OK", dirs.kucoin))
                     /\ pc' = "legB"
                     /\ UNCHANGED response
    /\ calls' = Append(calls, PlaceCall("kucoin", OrderSide(dirs.kucoin),
                                        req.quantity, req.leverage, None))
    /\ UNCHANGED <<cache, cache_ts, now, ledger, ledger0, req, dirs, prices,
                   balances, res_b, exchange_b_ok, close_res>>
    /\ UNCHANGED poolVars

\* mutant: the simulated failure is applied after the order went to Bybit
PlaceLegBSimulatedAfterCall ==
    /\ pc = "legB"
    /\ \E env \in BybitPlaceEnvs :
         LET r == PlaceMarketOrder("bybit", req.quantity, env)
             ok == r.success /\ ~req.simulate_failure
         IN  /\ res_b' = Some(r)
             /\ exchange_b_ok' = ok
             /\ logs' = Append(logs,
                  IF ok THEN LogEntry("Bybit", "place", "OK", dirs.bybit)
                  ELSE LogEntry("Bybit", "place", "FAILED", "simulated"))
             /\ pc' = IF ok THEN "record" ELSE "rollback"
    /\ calls' = Append(calls, PlaceCall("bybit", OrderSide(dirs.bybit),
                                        req.quantity, req.leverage, None))
    /\ UNCHANGED <<cache, cache_ts, now, ledger, ledger0, req, dirs, prices,
                   balances, res_a, close_res, response>>
    /\ UNCHANGED poolVars

\* step 2: place_market_order on Bybit, or the simulated failure
PlaceLegB ==
    /\ pc = "legB"
    /\ \/ /\ req.simulate_failure
          /\ logs' = Append(logs, LogEntry("Bybit", "place", "FAILED", "simulated"))
          /\ exchange_b_ok' = FALSE
          /\ pc' = "rollback"
          /\ UNCHANGED <<res_b, calls>>
       \/ /\ ~req.simulate_failure
          /\ \E env \in BybitPlaceEnvs :
               LET r == PlaceMarketOrder("bybit", req.quantity, env)
               IN  /\ res_b' = Some(r)
                   /\ exchange_b_ok' = r.success
                   /\ logs' = Append(logs,
                        IF r.success
                        THEN LogEntry("Bybit", "place", "OK", dirs.bybit)
                        ELSE LogEntry("Bybit", "place", "FAILED", r.error[1]))
                   /\ pc' = IF r.success THEN "record" ELSE "rollback"
          /\ calls' = Append(calls, PlaceCall("bybit", OrderSide(dirs.bybit),
                                              req.quantity, req.leverage, None))
    /\ UNCHANGED <<cache, cache_ts, now, ledger, ledger0, req, dirs, prices,
                   balances, res_a, close_res, response>>
    /\ UNCHANGED poolVars

\* leg B failed: close_position on KuCoin
Rollback ==
    /\ pc = "rollback"
    /\ \E env \in CloseEnvs :
         LET r == ClosePosition("kucoin", OrderSide(dirs.kucoin), req.quantity, env)
         IN  /\ close_res' = Some(r)
             /\ logs' = Append(logs,
                  IF r.success
                  THEN LogEntry("KuCoin", "rollback", "OK", "")
                  ELSE LogEntry("KuCoin", "rollback", "FAILED", r.error[1]))
             /\ calls' = Append(calls, Call("kucoin", "close", OrderSide(dirs.kucoin),
                                            req.quantity, r.sent))
    /\ pc' = "record"
    /\ UNCHANGED <<cache, cache_ts, now, ledger, ledger0, req, dirs, prices,
                   balances, res_a, res_b, exchange_b_ok, response>>
    /\ UNCHANGED poolVars

\* database.insert_trade: one more row
InsertTrade(rows, symbol, quantity, leverage, kd, bd, kp, bp, status) ==
    Append(rows, TradeRow(NextId(rows), symbol, quantity, leverage, kd, bd, kp, bp, status))

\* mutant: every record is written as OPEN
TradeStatusAlwaysOpen == "OPEN"

\* the status execute_dual_trade records
TradeStatus == IF exchange_b_ok THEN "OPEN" ELSE "FAILED_ROLLBACK"

\* database.insert_trade and the return that follows it; sqlite3 may raise,
\* and nothing in insert_trade or execute_dual_trade catches it
RecordTrade ==
    /\ pc = "record"
    /\ \/ /\ ledger' = InsertTrade(ledger, req.symbol, req.quantity, req.leverage,
                                   dirs.kucoin, dirs.bybit, prices.kucoin_price,
                                   prices.bybit_price, TradeStatus)
          /\ IF exchange_b_ok
             THEN Return(TRUE, "OPEN", "Trade Successful",
                         Append(logs, LogEntry("-", "ledger", "OK", "Trade logged as OPEN")))
             ELSE Return(FALSE, "FAILED_ROLLBACK",
                         "Trade Failed! First Order Rolled Back.", logs)
       \/ /\ response' = Unhandled("sqlite3.Error")
          /\ pc' = "fault"
          /\ UNCHANGED <<ledger, logs>>
    /\ UNCHANGED <<cache, cache_ts, now, ledger0, req, dirs, prices, balances,
                   res_a, res_b, exchange_b_ok, close_res, calls>>
    /\ UNCHANGED poolVars

Next ==
    \/ GetMarketData
    \/ ExecuteTrade
    \/ ExecuteDualTrade
    \/ ResolveDirections
    \/ GetMarkPrices
    \/ CheckBalance
    \/ PlaceLegA
    \/ PlaceLegB
    \/ Rollback
    \/ RecordTrade

Spec == Init /\ [][Next]_vars

\* the snapshot cache alone, with the clock running
NextCache ==
    \/ Tick
    \/ GetMarketData

SpecCache == Init /\ [][NextCache]_vars

(* ------------------------------------------------------------------ *)
(* The executor with the venues answering as in the scenario           *)
(* "quantity 2, leverage 5, mark prices 60000 and 60010, balance 500", *)
(* and with answers under which a request of one token goes through    *)
(* ------------------------------------------------------------------ *)
ScenarioQuantities == {1, 2}
ScenarioLeverages == {5}
ScenarioPrices == {Some(10), Some(60000), Some(60010)}
ScenarioBalances ==
    {[available_balance |-> b, error |-> None] : b \in {500, 30000}}

ScenarioRequest == ExecuteDualTradeOf(ScenarioQuantities, ScenarioLeverages)
ScenarioMarkPrices == GetMarkPricesOf(ScenarioPrices)
ScenarioBalance == CheckBalanceOf(ScenarioBalances)

NextScenario ==
    \/ ScenarioRequest
    \/ ResolveDirections
    \/ ScenarioMarkPrices
    \/ ScenarioBalance
    \/ PlaceLegA
    \/ PlaceLegB
    \/ Rollback
    \/ RecordTrade

SpecScenario == Init /\ [][NextScenario]_vars

(* ------------------------------------------------------------------ *)
(* The screener over snapshots of two symbols, whose rows have a rate  *)
(* that is unknown, negative or positive and an interval that is       *)
(* unknown, 4 or 8 hours                                               *)
(* ------------------------------------------------------------------ *)
ScreenerRates == {None, Some(-2), Some(2), Some(6)}
ScreenerIntervals == {None, Some(4), Some(8)}

\* a venue's list has no row of the symbol, or one
ScreenerRowsOf(symbol) ==
    {<<>>} \cup {<<RowWith(symbol, r, None, i)>> :
                    r \in ScreenerRates, i \in ScreenerIntervals}

\* the lists of a venue; the last has two rows that normalise to one symbol
ScreenerRowLists ==
    {a \o b : a \in ScreenerRowsOf("BTC/USDT"), b \in ScreenerRowsOf("ETH/USDT")}
    \cup {<<RowWith("BTC/USDT", Some(2), None, Some(4)),
            RowWith("BTC/USDT", Some(6), None, Some(8))>>}

ScreenerFetchResults ==
    {[raised |-> TRUE, rows |-> <<>>]} \cup
    {[raised |-> FALSE, rows |-> rs] : rs \in ScreenerRowLists}

\* get_arbitrage_opportunities called; the caller gets the list
GetArbitrageOpportunities ==
    /\ pc = "idle"
    /\ FetchAllMarketDataOf(ScreenerFetchResults)
    /\ response' = [kind |-> "opportunities", data |-> Opportunities(cache'[1])]
    /\ UNCHANGED <<now, ledger, ledger0, pc, req, dirs, prices, balances, res_a,
                   res_b, exchange_b_ok, close_res, logs>>
    /\ UNCHANGED poolVars

NextScreener ==
    \/ GetArbitrageOpportunities

SpecScreener == Init /\ [][NextScreener]_vars

(* ------------------------------------------------------------------ *)
(* The screener's handler (main.py) over the matcher, with the clock   *)
(* running; the rows differ in rate, next funding time and interval    *)
(* ------------------------------------------------------------------ *)
\* next_funding_time: None, or an ISO time, which the model writes as its
\* place in the order of the times
ListingTimes == {None, Some(1), Some(2)}

\* a venue's list: a BTC row without a next funding time, or a BTC row and
\* an ETH row of another interval
ListingRowLists ==
    {<<RowWith("BTC/USDT", Some(2), None, Some(8))>>} \cup
    {<<RowWith("BTC/USDT", Some(x[1]), Some(x[2]), Some(8)),
       RowWith("ETH/USDT", Some(4), Some(1), Some(4))>> : x \in {<<6, 1>>, <<2, 2>>}}

ListingFetchResults ==
    {[raised |-> TRUE, rows |-> <<>>]} \cup
    {[raised |-> FALSE, rows |-> rs] : rs \in ListingRowLists}

\* get_arbitrage_opportunities called on its own; at is the time of the call
MatchOpportunities ==
    /\ pc = "idle"
    /\ FetchAllMarketDataOf(ListingFetchResults)
    /\ response' = [kind |-> "opportunities", at |-> now,
                    data |-> Opportunities(cache'[1])]
    /\ UNCHANGED <<now, ledger, ledger0, pc, req, dirs, prices, balances, res_a,
                   res_b, exchange_b_ok, close_res, logs>>
    /\ UNCHANGED poolVars

\* the queries the model sends, and search.strip().lower() of each
Searches == {None, Some(""), Some("   "), Some(" BTC "), Some("xrp")}

StripLower(search) ==
    CASE search = "   " -> ""
      [] search = " BTC " -> "btc"
      [] OTHER -> search

\* q in r["symbol"].lower()
Contains(q, symbol) ==
    q = "btc" /\ symbol = "BTC/USDT"

\* step 1 of get_screener: the filter by search
FilterBySearch(full, search) ==
    IF search = None \/ search[1] = "" \/ StripLower(search[1]) = ""
    THEN full
    ELSE LET Hit(r) == Contains(StripLower(search[1]), r.symbol)
         IN  SelectSeq(full, Hit)

\* x.get("kucoin_funding_interval") or x.get("bybit_funding_interval") or 999
IntervalKey(x) ==
    IF x.kucoin_funding_interval # 0 THEN x.kucoin_funding_interval
    ELSE IF x.bybit_funding_interval # 0 THEN x.bybit_funding_interval
    ELSE 999

\* sort_by: the three modes the handler names, and a text it does not know
SortKeys == {"optimal", "interval", "spread", "volume"}

\* mutant: the optimal order looks at the interval alone
KeyLessIntervalOnly(a, b, sort_by) ==
    CASE sort_by = "optimal" -> IntervalKey(a) < IntervalKey(b)
      [] sort_by = "interval" ->
           \/ a.next_funding_time # None /\ b.next_funding_time = None
           \/ /\ a.next_funding_time # None /\ b.next_funding_time # None
              /\ a.next_funding_time[1] < b.next_funding_time[1]
      [] OTHER -> a.gross_spread > b.gross_spread

\* the sort key of a is less than that of b
KeyLess(a, b, sort_by) ==
    CASE sort_by = "optimal" ->
           \/ IntervalKey(a) < IntervalKey(b)
           \/ /\ IntervalKey(a) = IntervalKey(b)
              /\ -a.gross_spread < -b.gross_spread
      [] sort_by = "interval" ->
           \/ a.next_funding_time # None /\ b.next_funding_time = None
           \/ /\ a.next_funding_time # None /\ b.next_funding_time # None
              /\ a.next_funding_time[1] < b.next_funding_time[1]
      [] OTHER -> a.gross_spread > b.gross_spread

RECURSIVE InsertByKey(_, _, _)
\* x put into the sorted list s behind every entry whose key is not greater
InsertByKey(s, x, sort_by) ==
    IF s = <<>> THEN <<x>>
    ELSE IF KeyLess(x, Head(s), sort_by) THEN <<x>> \o s
    ELSE <<Head(s)>> \o InsertByKey(Tail(s), x, sort_by)

RECURSIVE SortFrom(_, _, _)
\* list.sort, which is stable: the first i entries of full in sorted order
SortFrom(full, i, sort_by) ==
    IF i = 0 THEN <<>>
    ELSE InsertByKey(SortFrom(full, i - 1, sort_by), full[i], sort_by)

\* step 2 of get_screener
SortedBy(full, sort_by) == SortFrom(full, Len(full), sort_by)

Min(a, b) == IF a < b THEN a ELSE b

\* s[start : stop] of a list, for start >= 0
Slice(s, start, stop) ==
    LET n == Len(s)
        hi == IF stop < 0 THEN Max(0, n + stop) ELSE Min(stop, n)
    IN  SubSeq(s, start + 1, hi)

\* mutant: the number of pages is rounded down
PageRoundedDown(full, page, limit) ==
    LET total_items == Len(full)
        total_pages == IF limit > 0 THEN Max(1, total_items \div limit) ELSE 1
        current == Max(1, Min(page, total_pages))
        start == (current - 1) * limit
    IN  [data |-> Slice(full, start, start + limit),
         total_pages |-> total_pages,
         current_page |-> current,
         total_items |-> total_items]

\* the pagination of get_screener and its response
Page(full, page, limit) ==
    LET total_items == Len(full)
        total_pages == IF limit > 0
                       THEN Max(1, (total_items + limit - 1) \div limit)
                       ELSE 1
        current == Max(1, Min(page, total_pages))
        start == (current - 1) * limit
    IN  [data |-> Slice(full, start, start + limit),
         total_pages |-> total_pages,
         current_page |-> current,
         total_items |-> total_items]

PageNumbers == {0, 1, 2, 3}
PageLimits == {-1, 0, 1, 2}

\* GET /api/screener with its arguments from the given sets; at is the time
\* the handler answered
GetScreenerOf(pages, limits, searches) ==
    /\ pc = "idle"
    /\ FetchAllMarketDataOf(ListingFetchResults)
    /\ \E found \in {Opportunities(cache'[1])} :
         response' \in
            {[kind |-> "screener", at |-> now] @@ Page(full, page, limit) :
                full \in {SortedBy(FilterBySearch(found, search), sort_by) :
                             search \in searches, sort_by \in SortKeys},
                page \in pages, limit \in limits}
    /\ UNCHANGED <<now, ledger, ledger0, pc, req, dirs, prices, balances, res_a,
                   res_b, exchange_b_ok, close_res, logs>>
    /\ UNCHANGED poolVars

GetScreener == GetScreenerOf(PageNumbers, PageLimits, Searches)

NextListing ==
    \/ Tick
    \/ MatchOpportunities
    \/ GetScreener

SpecListing == Init /\ [][NextListing]_vars

(* ------------------------------------------------------------------ *)
(* One GET /api/screener request on a cold cache, kept together with   *)
(* its arguments; the venues list up to three symbols                  *)
(* ------------------------------------------------------------------ *)
\* a venue's list: a BTC row and an ETH row of another interval, or three
\* rows of one interval whose rates and times differ from list to list
PagingRowLists ==
    {<<RowWith("BTC/USDT", Some(6), Some(1), Some(8)),
       RowWith("ETH/USDT", Some(4), Some(1), Some(4))>>,
     <<RowWith("BTC/USDT", Some(2), Some(2), Some(8)),
       RowWith("ETH/USDT", Some(7), Some(1), Some(8)),
       RowWith("SOL/USDT", Some(3), None, Some(8))>>,
     <<RowWith("BTC/USDT", Some(2), None, Some(8)),
       RowWith("ETH/USDT", Some(1), Some(1), Some(8)),
       RowWith("SOL/USDT", Some(5), None, Some(8))>>}

PagingFetchResults ==
    {[raised |-> TRUE, rows |-> <<>>]} \cup
    {[raised |-> FALSE, rows |-> rs] : rs \in PagingRowLists}

PagingPages == 0..4
PagingLimits == -1..3
Queries ==
    [search : Searches, sort_by : SortKeys, page : PagingPages, limit : PagingLimits]

\* get_screener answering the request q; the response is kept with q
GetScreenerQuery ==
    /\ pc = "idle"
    /\ response = NoResponse
    /\ FetchAllMarketDataOf(PagingFetchResults)
    /\ \E found \in {Opportunities(cache'[1])} :
         response' \in
            {[kind |-> "screener", at |-> now, query |-> q]
                @@ Page(SortedBy(FilterBySearch(found, q.search), q.sort_by),
                        q.page, q.limit) : q \in Queries}
    /\ UNCHANGED <<now, ledger, ledger0, pc, req, dirs, prices, balances, res_a,
                   res_b, exchange_b_ok, close_res, logs>>
    /\ UNCHANGED poolVars

NextPaging ==
    \/ GetScreenerQuery

SpecPaging == Init /\ [][NextPaging]_vars

(* ------------------------------------------------------------------ *)
(* place_market_order or close_position called on its own, once, on    *)
(* either venue, with the venue answering in every way                 *)
(* ------------------------------------------------------------------ *)
\* one call: res_a holds the result, and the spy what the venue did
PlaceOrder ==
    /\ pc = "idle"
    /\ calls = <<>>
    /\ \E exchange_name \in {"kucoin", "bybit"}, amount_base \in Quantities,
          side \in {"buy", "sell"}, leverage \in Leverages :
         \E env \in (IF exchange_name = "kucoin" THEN KucoinPlaceEnvs
                                                  ELSE BybitPlaceEnvs) :
            /\ res_a' = Some(PlaceMarketOrder(exchange_name, amount_base, env))
            /\ calls' = <<PlaceCall(exchange_name, side, amount_base, leverage,
                                    Some(env))>>
    /\ UNCHANGED <<cache, cache_ts, now, ledger, ledger0, pc, req, dirs, prices,
                   balances, res_b, exchange_b_ok, close_res, logs, response>>
    /\ UNCHANGED poolVars

\* one close_position call: close_res holds the result, and the spy what
\* the venue did
CloseOrder ==
    /\ pc = "idle"
    /\ calls = <<>>
    /\ \E exchange_name \in {"kucoin", "bybit"}, amount_base \in Quantities,
          side \in {"buy", "sell"}, env \in CloseEnvs :
            /\ close_res' = Some(ClosePosition(exchange_name, side, amount_base, env))
            /\ calls' = <<Call(exchange_name, "close", side, amount_base, Some(env))>>
    /\ UNCHANGED <<cache, cache_ts, now, ledger, ledger0, pc, req, dirs, prices,
                   balances, res_a, res_b, exchange_b_ok, logs, response>>
    /\ UNCHANGED poolVars

NextOrders ==
    \/ PlaceOrder
    \/ CloseOrder

SpecOrders == Init /\ [][NextOrders]_vars

(* ------------------------------------------------------------------ *)
(* fetch_all_market_data on the threads of the pool, one step per      *)
(* statement that reads or writes the module globals or calls a venue  *)
(* ------------------------------------------------------------------ *)
\* lines 293-300: read the clock, test the cache, return it or start a
\* summary; a thread that has returned takes the next call
FetchEnter(w) ==
    /\ \/ fetchers[w].pc = "idle"
       \/ fetchers[w].pc = "done" /\ Len(calls) < MaxVenueFetches
    /\ fetchers' = [fetchers EXCEPT ![w] =
           IF CacheFresh
           THEN [IdleFetcher EXCEPT !.pc = "done", !.t = now, !.got = cache]
           ELSE [IdleFetcher EXCEPT !.pc = "kucoin", !.t = now]]
    /\ UNCHANGED <<cache, cache_ts, now, calls, traders>>
    /\ UNCHANGED execVars

\* a fetch that raises, and one that returns a row
ThreadFetchResults ==
    {[raised |-> TRUE, rows |-> <<>>],
     [raised |-> FALSE, rows |-> <<Row("BTC/USDT", Some(0))>>]}

\* mutant: the summary is put into the cache while it is being filled
FetchVenuePublishing(w) ==
    /\ fetchers[w].pc \in {"kucoin", "bybit"}
    /\ \E f \in ThreadFetchResults :
         LET venue == fetchers[w].pc
             summary == [fetchers[w].summary EXCEPT ![venue] = Section(f)]
         IN  /\ fetchers' = [fetchers EXCEPT ![w] =
                    [@ EXCEPT !.summary = summary,
                              !.pc = IF venue = "kucoin" THEN "bybit" ELSE "store"]]
             /\ cache' = Some(summary)
             /\ calls' = Append(calls, Call(venue, "snapshot", "-", 0, Some(f)))
    /\ UNCHANGED <<cache_ts, now, traders>>
    /\ UNCHANGED execVars

\* lines 302-311: the fetch of one venue and its section of the summary
FetchVenue(w) ==
    /\ fetchers[w].pc \in {"kucoin", "bybit"}
    /\ \E f \in ThreadFetchResults :
         LET venue == fetchers[w].pc
         IN  /\ fetchers' = [fetchers EXCEPT ![w] =
                    [@ EXCEPT !.summary = [@ EXCEPT ![venue] = Section(f)],
                              !.pc = IF venue = "kucoin" THEN "bybit" ELSE "store"]]
             /\ calls' = Append(calls, Call(venue, "snapshot", "-", 0, Some(f)))
    /\ UNCHANGED <<cache, cache_ts, now, traders>>
    /\ UNCHANGED execVars

\* lines 313-315: store the summary with the time read at entry, return it
FetchStore(w) ==
    /\ fetchers[w].pc = "store"
    /\ cache' = Some(fetchers[w].summary)
    /\ cache_ts' = fetchers[w].t
    /\ fetchers' = [fetchers EXCEPT ![w] =
           [@ EXCEPT !.pc = "done", !.got = Some(fetchers[w].summary)]]
    /\ UNCHANGED <<now, calls, traders>>
    /\ UNCHANGED execVars

NextRefresh ==
    \/ Tick
    \/ \E w \in Threads : FetchEnter(w)
    \/ \E w \in Threads : FetchVenue(w)
    \/ \E w \in Threads : FetchStore(w)

SpecRefresh == Init /\ [][NextRefresh]_vars

(* ------------------------------------------------------------------ *)
(* execute_trade / execute_dual_trade on the threads of the pool: the  *)
(* positions of an execution, with the validations and the venues      *)
(* answering either way                                                *)
(* ------------------------------------------------------------------ *)
\* main.execute_trade with a valid symbol and positive numbers
TradeEnter(w) ==
    /\ traders[w].pc = "idle"
    /\ \E symbol \in TradeSymbols :
         traders' = [traders EXCEPT ![w] = [@ EXCEPT !.pc = "validate", !.symbol = symbol]]
    /\ UNCHANGED <<cache, cache_ts, now, calls, fetchers>>
    /\ UNCHANGED execVars

\* lines 111-123: directions, prices, limits, balances
TradeValidate(w) ==
    /\ traders[w].pc = "validate"
    /\ \E ok \in BOOLEAN :
         traders' = [traders EXCEPT ![w] =
             IF ok THEN [@ EXCEPT !.pc = "legA"]
             ELSE [@ EXCEPT !.pc = "done", !.status = "null"]]
    /\ UNCHANGED <<cache, cache_ts, now, calls, fetchers>>
    /\ UNCHANGED execVars

\* lines 129-134: place_market_order on KuCoin
TradeLegA(w) ==
    /\ traders[w].pc = "legA"
    /\ \E ok \in BOOLEAN :
         traders' = [traders EXCEPT ![w] =
             IF ok THEN [@ EXCEPT !.pc = "legB"]
             ELSE [@ EXCEPT !.pc = "done", !.status = "null"]]
    /\ UNCHANGED <<cache, cache_ts, now, calls, fetchers>>
    /\ UNCHANGED execVars

\* lines 136-147: place_market_order on Bybit, or the simulated failure
TradeLegB(w) ==
    /\ traders[w].pc = "legB"
    /\ \E ok \in BOOLEAN :
         traders' = [traders EXCEPT ![w] =
             [@ EXCEPT !.exchange_b_ok = ok,
                       !.pc = IF ok THEN "record" ELSE "rollback"]]
    /\ UNCHANGED <<cache, cache_ts, now, calls, fetchers>>
    /\ UNCHANGED execVars

\* lines 149-154: close_position on KuCoin
TradeRollback(w) ==
    /\ traders[w].pc = "rollback"
    /\ traders' = [traders EXCEPT ![w] = [@ EXCEPT !.pc = "record"]]
    /\ UNCHANGED <<cache, cache_ts, now, calls, fetchers>>
    /\ UNCHANGED execVars

\* lines 155-188: database.insert_trade, which may raise, and the return
TradeRecord(w) ==
    /\ traders[w].pc = "record"
    /\ LET status == IF traders[w].exchange_b_ok THEN "OPEN" ELSE "FAILED_ROLLBACK"
       IN  \/ /\ ledger' = InsertTrade(ledger, traders[w].symbol, 1, 1, "Long", "Short",
                                        Some(1), Some(1), status)
              /\ traders' = [traders EXCEPT ![w] =
                     [@ EXCEPT !.pc = "done", !.status = status]]
           \/ /\ traders' = [traders EXCEPT ![w] = [@ EXCEPT !.pc = "fault"]]
              /\ UNCHANGED ledger
    /\ UNCHANGED <<cache, cache_ts, now, calls, fetchers, ledger0, pc, req, dirs,
                   prices, balances, res_a, res_b, exchange_b_ok, close_res, logs,
                   response>>

NextTrades ==
    \/ \E w \in Threads : TradeEnter(w)
    \/ \E w \in Threads : TradeValidate(w)
    \/ \E w \in Threads : TradeLegA(w)
    \/ \E w \in Threads : TradeLegB(w)
    \/ \E w \in Threads : TradeRollback(w)
    \/ \E w \in Threads : TradeRecord(w)

SpecTrades == Init /\ [][NextTrades]_vars

(* ------------------------------------------------------------------ *)
(* The ledger with executions that append to it and GET /api/trades    *)
(* reading it, on the threads of the pool                              *)
(* ------------------------------------------------------------------ *)
\* the values of the query parameter limit that the model sends
TradeLimits == {-1, 0, 1, 2, 60}

\* min(50, max(1, limit))
ClampLimit(limit) == Min(50, Max(1, limit))

\* GET /api/trades: the response, with the limit that was asked for
GetTrades ==
    /\ \E limit \in TradeLimits :
         response' = [kind |-> "trades", limit |-> limit,
                      trades |-> GetRecentTrades(ledger, ClampLimit(limit))]
    /\ UNCHANGED <<cache, cache_ts, now, ledger, ledger0, pc, req, dirs, prices,
                   balances, res_a, res_b, exchange_b_ok, close_res, logs, calls>>
    /\ UNCHANGED poolVars

NextLedger ==
    \/ NextTrades
    \/ GetTrades

SpecLedger == Init /\ [][NextLedger]_vars

(* ------------------------------------------------------------------ *)
(* Observations used by the properties                                 *)
(* ------------------------------------------------------------------ *)
\* the execution is over: it returned, raised, or was refused by the endpoint
Ended == pc \in {"done", "fault", "http400"}
\* execute_dual_trade handed a response object to its caller
Returned == pc = "done"
LegAPlaced == res_a # None /\ res_a[1].success
LegBPlaced == res_b # None /\ res_b[1].success
LegAFailedNow == res_a # None /\ ~res_a[1].success
\* leg B failed, really or by simulation
LegBFailed == LegAPlaced /\ ~exchange_b_ok

CallsOf(venue, op) == SelectSeq(calls, LAMBDA c : c.venue = venue /\ c.op = op)
CallsOp(op) == SelectSeq(calls, LAMBDA c : c.op = op)
NoOrderCalls == CallsOp("place") = <<>> /\ CallsOp("close") = <<>>

\* the rows this execution added to the ledger
Appended == SubSeq(ledger, Len(ledger0) + 1, Len(ledger))
LedgerKept == Len(ledger) >= Len(ledger0) /\ SubSeq(ledger, 1, Len(ledger0)) = ledger0

Rejected ==
    response.kind = "result" /\ response.success = FALSE /\ response.status = "null"
ReturnedStatus(status) == response.kind = "result" /\ response.status = status

\* the one row the execution appended carries this status
OneRow(status) ==
    /\ LedgerKept
    /\ Len(Appended) = 1
    /\ Appended[1].status = status

\* exactly one close call, on KuCoin, for the side leg A opened and the
\* requested quantity; an order it sent has the opposite side
OneCloseOfLegA ==
    /\ Len(CallsOp("close")) = 1
    /\ LET c == CallsOp("close")[1]
           a == CallsOf("kucoin", "place")[1]
       IN  /\ c.venue = "kucoin"
           /\ c.side = a.side
           /\ c.qty = req.quantity
           /\ c.sent # None => c.sent[1] # a.side /\ c.sent[1] \in {"buy", "sell"}

\* the funding rates of the request's symbol in the cached snapshot
CachedRate(venue) ==
    IF cache = None THEN None
    ELSE FundingRateOf(IF venue = "kucoin" THEN cache[1].kucoin.symbols
                       ELSE cache[1].bybit.symbols, req.symbol)

\* higher funding rate -> Short, lower -> Long, for directions kd, bd
HigherIsShort(kd, bd) ==
    LET kr == CachedRate("kucoin")
        br == CachedRate("bybit")
    IN  /\ (kr # None /\ br # None /\ kr[1] > br[1]) => (kd = "Short" /\ bd = "Long")
        /\ (kr # None /\ br # None /\ br[1] > kr[1]) => (kd = "Long" /\ bd = "Short")

\* the log entry of a leg-B failure is followed by the rollback's entry
FailureThenRollbackLogged ==
    /\ Len(logs) = 3
    /\ logs[2].who = "Bybit" /\ logs[2].step = "place" /\ logs[2].outcome = "FAILED"
    /\ logs[3].who = "KuCoin" /\ logs[3].step = "rollback"
    /\ logs[3].outcome = (IF close_res[1].success THEN "OK" ELSE "FAILED")

(* ------------------------------------------------------------------ *)
(* C1                                                                  *)
(* ------------------------------------------------------------------ *)
\* C1: an execution that ends with leg A placed and leg B failed (really or
\* by simulation) has attempted a close_position on KuCoin and has appended
\* a Trade Record; no end state has leg A placed, leg B not placed and no
\* close attempt or no record.
C1_PartialFailureRecovered ==
    (Ended /\ LegBFailed) =>
        (CallsOf("kucoin", "close") # <<>> /\ LedgerKept /\ Len(Appended) >= 1)

\* C1, on the executions in which insert_trade returns
C1_RecoveredWhenLedgerAnswers ==
    (Returned /\ LegBFailed) =>
        (CallsOf("kucoin", "close") # <<>> /\ LedgerKept /\ Len(Appended) >= 1)

(* ------------------------------------------------------------------ *)
(* C2                                                                  *)
(* ------------------------------------------------------------------ *)
\* C2: a request with simulate_failure set that passes validation and whose
\* KuCoin placement succeeds ends with status FAILED_ROLLBACK and
\* success=false, exactly one close attempted on KuCoin with the side
\* opposite to leg A's and the requested quantity, and exactly one
\* FAILED_ROLLBACK Trade Record appended.
C2_SimulatedFailureRolledBack ==
    (Ended /\ req.simulate_failure /\ LegAPlaced) =>
        /\ ReturnedStatus("FAILED_ROLLBACK") /\ response.success = FALSE
        /\ OneCloseOfLegA
        /\ OneRow("FAILED_ROLLBACK")

\* C2, on the executions in which insert_trade returns
C2_RolledBackWhenLedgerAnswers ==
    (Returned /\ req.simulate_failure /\ LegAPlaced) =>
        /\ ReturnedStatus("FAILED_ROLLBACK") /\ response.success = FALSE
        /\ OneCloseOfLegA
        /\ OneRow("FAILED_ROLLBACK")

(* ------------------------------------------------------------------ *)
(* C3                                                                  *)
(* ------------------------------------------------------------------ *)
\* C3: when both place_market_order calls succeed the execution returns
\* status OPEN with success=true, appends exactly one Trade Record with
\* status OPEN, and the recorded and placed directions put the venue with
\* the higher funding rate of the cached snapshot Short and the other Long.
C3_BothLegsOpen ==
    (Ended /\ LegAPlaced /\ LegBPlaced) =>
        /\ ReturnedStatus("OPEN") /\ response.success = TRUE
        /\ OneRow("OPEN")
        /\ HigherIsShort(Appended[1].kucoin_direction, Appended[1].bybit_direction)
        /\ CallsOf("kucoin", "place")[1].side = OrderSide(Appended[1].kucoin_direction)
        /\ CallsOf("bybit", "place")[1].side = OrderSide(Appended[1].bybit_direction)

\* C3, on the executions in which insert_trade returns
C3_OpenWhenLedgerAnswers ==
    (Returned /\ LegAPlaced /\ LegBPlaced) =>
        /\ ReturnedStatus("OPEN") /\ response.success = TRUE
        /\ OneRow("OPEN")
        /\ HigherIsShort(Appended[1].kucoin_direction, Appended[1].bybit_direction)
        /\ CallsOf("kucoin", "place")[1].side = OrderSide(Appended[1].kucoin_direction)
        /\ CallsOf("bybit", "place")[1].side = OrderSide(Appended[1].bybit_direction)

(* ------------------------------------------------------------------ *)
(* C4                                                                  *)
(* ------------------------------------------------------------------ *)
\* C4: when place_market_order on KuCoin returns failure the execution
\* has returned at once: no order call went to Bybit, no close_position
\* was issued, no Trade Record was appended, and the response has
\* success=false, status=null and a message that carries the venue's error.
C4_LegAFailureAborts ==
    LegAFailedNow =>
        /\ Returned
        /\ CallsOf("bybit", "place") = <<>>
        /\ CallsOp("close") = <<>>
        /\ res_b = None /\ close_res = None
        /\ ledger = ledger0
        /\ Rejected
        /\ response.message = "KuCoin order failed: " \o res_a[1].error[1]
        /\ logs = <<LogEntry("KuCoin", "place", "FAILED", res_a[1].error[1])>>

\* C4 witness: KuCoin refused the order after two submissions
C4_Witness ==
    LegAFailedNow /\ res_a[1].submissions = 2 /\ Returned

(* ------------------------------------------------------------------ *)
(* C5                                                                  *)
(* ------------------------------------------------------------------ *)
\* C5: when leg B fails (really or by simulation) after leg A succeeded,
\* the execution ends with status FAILED_ROLLBACK and exactly one
\* FAILED_ROLLBACK Trade Record, whether close_position succeeded or not;
\* the logs hold the leg-B failure followed by the rollback outcome, which
\* reads OK exactly when the close succeeded.
C5_RollbackAlwaysRecorded ==
    (Ended /\ LegBFailed) =>
        /\ ReturnedStatus("FAILED_ROLLBACK")
        /\ OneRow("FAILED_ROLLBACK")
        /\ FailureThenRollbackLogged

\* C5, on the executions in which insert_trade returns
C5_RecordedWhenLedgerAnswers ==
    (Returned /\ LegBFailed) =>
        /\ ReturnedStatus("FAILED_ROLLBACK")
        /\ OneRow("FAILED_ROLLBACK")
        /\ FailureThenRollbackLogged

(* ------------------------------------------------------------------ *)
(* C6                                                                  *)
(* ------------------------------------------------------------------ *)
\* C6: whatever the venue calls and the ledger append do (succeed, return
\* an error, raise), an execution of execute_dual_trade that is over has
\* returned a response object; none ends with an exception leaving it.
C6_AlwaysReturnsResponse ==
    pc \in {"done", "fault"} => response.kind = "result"

\* C6, for the venue calls alone: before the ledger is written no
\* exception leaves execute_dual_trade
C6_VenueFaultsHandled ==
    (pc = "fault") => (LegAPlaced /\ Len(Appended) = 0)

(* ------------------------------------------------------------------ *)
(* C7                                                                  *)
(* ------------------------------------------------------------------ *)
\* C7: once the KuCoin placement has succeeded the execution runs on to
\* a terminal trade state: while it is not over a next step exists, and
\* when it is over it has returned status OPEN or FAILED_ROLLBACK.
C7_RunsToTerminalState ==
    LegAPlaced =>
        /\ ~Ended => pc \in {"legB", "rollback", "record"}
        /\ Ended => (ReturnedStatus("OPEN") \/ ReturnedStatus("FAILED_ROLLBACK"))

\* C7, on the executions in which insert_trade returns
C7_TerminalWhenLedgerAnswers ==
    (LegAPlaced /\ Returned) =>
        (ReturnedStatus("OPEN") \/ ReturnedStatus("FAILED_ROLLBACK"))

\* only the steps before leg A end an execution with status null
C7_NullOnlyBeforeLegA ==
    (Returned /\ response.status = "null") => ~LegAPlaced

OverCap ==
    \/ req.quantity > MAX_TOKENS
    \/ req.quantity * Max(OrZero(prices.kucoin_price), OrZero(prices.bybit_price))
         > MAX_NOTIONAL_USDT

MarginOver(price, avail) ==
    req.leverage > 0 /\ req.quantity * OrZero(price) > avail * req.leverage

\* C10: a leg is placed only when, on each venue, quantity * mark price /
\* leverage is at most the available balance read from that venue; when
\* the margin is over the balance on either venue the request is rejected
\* with success=false and status=null, no order placed, no Trade Record.
C10_MarginWithinBalance ==
    /\ CallsOp("place") # <<>> =>
          /\ balances # None
          /\ req.leverage > 0
          /\ ~MarginOver(prices.kucoin_price, balances[1].kucoin.available_balance)
          /\ ~MarginOver(prices.bybit_price, balances[1].bybit.available_balance)
    /\ (balances # None /\
        (\/ MarginOver(prices.kucoin_price, balances[1].kucoin.available_balance)
         \/ MarginOver(prices.bybit_price, balances[1].bybit.available_balance))) =>
          /\ Returned /\ Rejected
          /\ NoOrderCalls
          /\ ledger = ledger0

\* C10 witness: leg A was placed with the margin equal to the balance
C10_Witness ==
    /\ LegAPlaced
    /\ req.quantity * OrZero(prices.kucoin_price)
         = balances[1].kucoin.available_balance * req.leverage

(* ------------------------------------------------------------------ *)
(* C11: the scenario {BTC/USDT, quantity 2, leverage 5}, mark prices   *)
(* 60000 and 60010, balance 500 on each venue                          *)
(* ------------------------------------------------------------------ *)
\* the request and the mark prices of the scenario
InScenario ==
    /\ req.symbol = "BTC/USDT" /\ req.quantity = 2 /\ req.leverage = 5
    /\ prices = [kucoin_price |-> Some(60000), bybit_price |-> Some(60010)]

\* C11 as stated: the scenario's request ends with the insufficient-balance
\* rejection and no leg placed
C11_ScenarioInsufficientBalance ==
    (InScenario /\ Ended) =>
        /\ Rejected
        /\ response.message \in {"Insufficient balance: KuCoin", "Insufficient balance: Bybit"}
        /\ NoOrderCalls

\* C11 as the code has it: the scenario's request is rejected by the notional
\* cap (2 x 60010 > 20) as soon as the mark prices are read: success=false,
\* status=null, no balance is read, no leg is placed, no record is appended
C11_ScenarioRejectedByNotionalCap ==
    InScenario =>
        /\ Returned /\ Rejected
        /\ response.message = "Notional exceeds limit"
        /\ CallsOp("balance") = <<>>
        /\ NoOrderCalls
        /\ ledger = ledger0

\* the scenario's request has been answered
C11_Witness ==
    /\ InScenario /\ Returned
    /\ req.quantity * Max(OrZero(prices.kucoin_price), OrZero(prices.bybit_price))
         > MAX_NOTIONAL_USDT
    /\ req.quantity <= MAX_TOKENS

(* ------------------------------------------------------------------ *)
(* C12: a missing or non-positive mark price                           *)
(* ------------------------------------------------------------------ *)
\* get_mark_prices_for_symbol has answered and a price is None or <= 0
MarkPriceMissing ==
    /\ CallsOp("price") # <<>>
    /\ (OrZero(prices.kucoin_price) <= 0 \/ OrZero(prices.bybit_price) <= 0)

\* C12: when the mark price is missing or non-positive on either venue, the
\* execution has returned success=false and status=null at once, with no
\* order call and no Trade Record appended
C12_PriceUnavailableRejected ==
    MarkPriceMissing =>
        /\ Returned /\ Rejected
        /\ NoOrderCalls
        /\ ledger = ledger0

\* KuCoin's price is there, Bybit's is missing, and the request was refused
C12_Witness ==
    /\ MarkPriceMissing /\ Returned
    /\ OrZero(prices.kucoin_price) > 0
    /\ prices.bybit_price = None
    /\ req.quantity > 0 /\ req.leverage > 0

(* ------------------------------------------------------------------ *)
(* C13: the shape of the response and what its logs account for        *)
(* ------------------------------------------------------------------ *)
LogsOf(who, step) == SelectSeq(logs, LAMBDA e : e.who = who /\ e.step = step)

\* status is null, OPEN or FAILED_ROLLBACK, and success goes with OPEN
ResponseShape ==
    /\ response.status \in {"null", "OPEN", "FAILED_ROLLBACK"}
    /\ response.success = (response.status = "OPEN")

\* one entry for each of the steps place A, place B, rollback that was attempted
SagaStepsLogged ==
    /\ Len(LogsOf("KuCoin", "place")) = (IF res_a # None THEN 1 ELSE 0)
    /\ Len(LogsOf("Bybit", "place")) = (IF LegAPlaced THEN 1 ELSE 0)
    /\ Len(LogsOf("KuCoin", "rollback")) = (IF close_res # None THEN 1 ELSE 0)
    /\ LegAPlaced => logs[1].outcome = "OK"
    /\ LegAFailedNow => logs[Len(logs)].outcome = "FAILED"
    /\ close_res # None =>
          LogsOf("KuCoin", "rollback")[1].outcome =
              (IF close_res[1].success THEN "OK" ELSE "FAILED")

\* a rejection before leg A is told by one FAILED entry
RejectionLogged ==
    (Rejected /\ res_a = None) =>
        /\ Len(logs) = 1
        /\ logs[1].outcome = "FAILED"
        /\ logs[1].detail = response.message

\* C13 as stated: every returned response has the shape above and logs with
\* one entry per step attempted, rejections on validation and on a missing
\* price included
C13_ResponseAccountsForEveryStep ==
    Returned => (ResponseShape /\ SagaStepsLogged /\ RejectionLogged)

\* C13 but for the missing price: every returned response has the shape
\* above, the saga steps and the limit and balance rejections have their
\* entry, and the price-unavailable rejection comes with empty logs
C13_AllButMissingPriceLogged ==
    Returned =>
        /\ ResponseShape /\ SagaStepsLogged
        /\ IF MarkPriceMissing THEN logs = <<>> ELSE RejectionLogged

(* ------------------------------------------------------------------ *)
(* C14: which executions append a Trade Record                         *)
(* ------------------------------------------------------------------ *)
\* the appended row carries the returned status and the values the orders
\* were placed with
RecordMatchesOrders ==
    LET row == Appended[1]
        ka  == CallsOf("kucoin", "place")
        kb  == CallsOf("bybit", "place")
    IN  /\ row.status = response.status
        /\ row.token_group_id = req.symbol
        /\ row.quantity = req.quantity /\ row.leverage = req.leverage
        /\ Len(ka) = 1
        /\ ka[1].qty = row.quantity
        /\ ka[1].side = (IF row.kucoin_direction = "Short" THEN "sell" ELSE "buy")
        /\ \A i \in 1..Len(kb) :
              /\ kb[i].qty = row.quantity
              /\ kb[i].side = (IF row.bybit_direction = "Short" THEN "sell" ELSE "buy")

\* C14: a Trade Record is appended exactly when the execution returns OPEN
\* or FAILED_ROLLBACK; it is one row, with the returned status and the
\* quantity, leverage and directions of the orders; status null appends none
C14_RecordIffTerminalStatus ==
    /\ LedgerKept
    /\ Len(Appended) <= 1
    /\ (Appended # <<>>) <=>
          (Returned /\ response.status \in {"OPEN", "FAILED_ROLLBACK"})
    /\ Appended # <<>> => RecordMatchesOrders
    /\ ReturnedStatus("null") => ledger = ledger0

\* a FAILED_ROLLBACK row was appended after older rows, both legs' orders sent
C14_Witness ==
    /\ Returned /\ response.status = "FAILED_ROLLBACK"
    /\ ledger0 # <<>>
    /\ Len(Appended) = 1
    /\ Appended[1].kucoin_direction = "Short"
    /\ CallsOf("bybit", "place") # <<>>

(* ------------------------------------------------------------------ *)
(* C16: the snapshot cache and its TTL (sequential callers)            *)
(* ------------------------------------------------------------------ *)
\* what a step that is a call of fetch_all_market_data (through
\* get_market_data) does, by the age of the snapshot when it is made
ServedFromCacheOrRefreshed ==
    IF cache # None /\ now - cache_ts < 60
    THEN /\ calls' = calls
         /\ cache' = cache /\ cache_ts' = cache_ts
         /\ response' = MarketDataResponse(cache[1])
         /\ cache[1] = cache'[1]
    ELSE /\ Len(calls') = Len(calls) + 2
         /\ calls'[Len(calls) + 1].venue = "kucoin"
         /\ calls'[Len(calls) + 1].op = "snapshot"
         /\ calls'[Len(calls) + 2].venue = "bybit"
         /\ calls'[Len(calls) + 2].op = "snapshot"
         /\ SubSeq(calls', 1, Len(calls)) = calls
         /\ cache' # None /\ cache_ts' = now
         /\ response' = MarketDataResponse(cache'[1])

\* C16: a call made while a snapshot exists and is younger than 60 s returns
\* it with no venue call and leaves the cache alone; a call made with no
\* snapshot or one of age 60 s or more fetches each venue once, stores the
\* result with the time of the call and returns it
C16_CacheServesWithinTTL ==
    [][now' = now => ServedFromCacheOrRefreshed]_vars

\* the cold cache was filled at time 0 and the snapshot was replaced by a
\* call made at age 60 exactly
C16_Witness ==
    /\ cache # None /\ now = 60 /\ cache_ts = 60
    /\ Len(calls) = 4
    /\ response = MarketDataResponse(cache[1])

(* ------------------------------------------------------------------ *)
(* C18: one venue's failed fetch in a refresh                          *)
(* ------------------------------------------------------------------ *)
\* the section of the snapshot is what the venue's own fetch f gave
SectionReflects(section, f) ==
    /\ (section.error # None) <=> f.raised
    /\ f.raised => (section.symbols_count = 0 /\ section.symbols = <<>>)
    /\ ~f.raised =>
          (section.symbols = f.rows /\ section.symbols_count = Len(f.rows))

\* C18: after a refresh the caller has a response (nothing was raised), and
\* each venue's section of the stored snapshot is decided by that venue's own
\* fetch: count 0, no symbols and an error when it failed, its rows and no
\* error when it did not
C18_VenueFailuresAreIsolated ==
    cache # None =>
        LET n == Len(calls)
        IN  /\ n >= 2
            /\ calls[n - 1].venue = "kucoin" /\ calls[n].venue = "bybit"
            /\ SectionReflects(cache[1].kucoin, calls[n - 1].sent[1])
            /\ SectionReflects(cache[1].bybit, calls[n].sent[1])
            /\ response.kind = "market_data"

\* KuCoin's fetch failed, Bybit's returned a row
C18_Witness ==
    /\ cache # None
    /\ calls # <<>>
    /\ calls[Len(calls) - 1].sent[1].raised
    /\ cache[1].kucoin.error # None
    /\ cache[1].bybit.error = None
    /\ cache[1].bybit.symbols_count = 1
    /\ response = MarketDataResponse(cache[1])

(* ------------------------------------------------------------------ *)
(* C15: executions of the same symbol at the same time                 *)
(* ------------------------------------------------------------------ *)
\* past the balance check and not yet at the terminal state
TradeInProgress(w) == traders[w].pc \in {"legA", "legB", "rollback", "record"}

\* C15: no two executions for the same symbol are between their balance
\* check and their terminal state at the same time
C15_OneExecutionPerSymbol ==
    \A w1 \in Threads, w2 \in Threads :
        (/\ TradeInProgress(w1) /\ TradeInProgress(w2)
         /\ traders[w1].symbol = traders[w2].symbol) => w1 = w2

(* ------------------------------------------------------------------ *)
(* C17: callers of fetch_all_market_data at the same time              *)
(* ------------------------------------------------------------------ *)
\* past the cache test and not yet returned: the thread is refreshing
RefreshInFlight(w) == fetchers[w].pc \in {"kucoin", "bybit", "store"}

\* C17: at most one refresh is in flight at any time, and before the first
\* snapshot is 60 s old each venue has been fetched at most once
C17_SingleFlightRefresh ==
    /\ \A w1 \in Threads, w2 \in Threads :
          (RefreshInFlight(w1) /\ RefreshInFlight(w2)) => w1 = w2
    /\ now < 60 =>
          (/\ Len(CallsOf("kucoin", "snapshot")) <= 1
           /\ Len(CallsOf("bybit", "snapshot")) <= 1)

(* ------------------------------------------------------------------ *)
(* C19, C20: the opportunities the matcher returns for the snapshot    *)
(* ------------------------------------------------------------------ *)
\* the matcher has answered from the cached snapshot
Matched == response.kind = "opportunities" /\ cache # None

\* the row a venue's section has for the symbol: the one its dict keeps
VenueRow(venue, symbol) ==
    LET list == cache[1][venue].symbols
        idx  == {i \in 1..Len(list) : list[i].symbol = symbol}
    IN  list[CHOOSE i \in idx : \A j \in idx : j <= i]

OnVenue(venue, symbol) ==
    \E i \in 1..Len(cache[1][venue].symbols) :
        cache[1][venue].symbols[i].symbol = symbol

\* on both venues, with both rates and both intervals known and the
\* intervals equal
Pairable(symbol) ==
    /\ OnVenue("kucoin", symbol) /\ OnVenue("bybit", symbol)
    /\ VenueRow("kucoin", symbol).funding_rate # None
    /\ VenueRow("bybit", symbol).funding_rate # None
    /\ VenueRow("kucoin", symbol).funding_interval # None
    /\ VenueRow("bybit", symbol).funding_interval # None
    /\ VenueRow("kucoin", symbol).funding_interval
         = VenueRow("bybit", symbol).funding_interval

EntriesOf(symbol) ==
    {i \in 1..Len(response.data) : response.data[i].symbol = symbol}

\* C19: the list has an entry for a symbol exactly when the symbol is on
\* both venues with both rates non-null and both intervals non-null and
\* equal; it has one entry for it then; no entry pairs intervals 4 and 8
C19_OnlyEqualIntervalPairsSurface ==
    Matched =>
        /\ \A i \in 1..Len(response.data) :
              /\ response.data[i].symbol \in {"BTC/USDT", "ETH/USDT"}
              /\ response.data[i].kucoin_funding_interval
                   = response.data[i].bybit_funding_interval
        /\ \A symbol \in {"BTC/USDT", "ETH/USDT"} :
              Cardinality(EntriesOf(symbol)) = (IF Pairable(symbol) THEN 1 ELSE 0)

\* BTC/USDT is surfaced with 8 h on both venues; ETH/USDT has both rates but
\* intervals 4 and 8 and is not
C19_Witness ==
    /\ Matched
    /\ Len(response.data) = 1
    /\ response.data[1].symbol = "BTC/USDT"
    /\ response.data[1].kucoin_funding_interval = 8
    /\ OnVenue("kucoin", "ETH/USDT") /\ OnVenue("bybit", "ETH/USDT")
    /\ VenueRow("kucoin", "ETH/USDT").funding_rate # None
    /\ VenueRow("bybit", "ETH/USDT").funding_rate # None
    /\ VenueRow("kucoin", "ETH/USDT").funding_interval = Some(4)
    /\ VenueRow("bybit", "ETH/USDT").funding_interval = Some(8)

\* C20: every entry has gross_spread = |KuCoin rate - Bybit rate| >= 0 for
\* the rates of the snapshot, and its action puts the venue with the higher
\* rate Short and the other Long; rates 6 and 2 give spread 4 and
\* 'KuCoin: Short / Bybit: Long'
C20_SpreadAndDirection ==
    Matched =>
        \A i \in 1..Len(response.data) :
            LET e  == response.data[i]
                kr == VenueRow("kucoin", e.symbol).funding_rate[1]
                br == VenueRow("bybit", e.symbol).funding_rate[1]
            IN  /\ e.kucoin_rate = kr /\ e.bybit_rate = br
                /\ e.gross_spread >= 0
                /\ e.gross_spread = (IF kr >= br THEN kr - br ELSE br - kr)
                /\ kr > br => e.recommended_action = "KuCoin: Short / Bybit: Long"
                /\ kr < br => e.recommended_action = "KuCoin: Long / Bybit: Short"
                /\ (kr = 6 /\ br = 2) =>
                      (/\ e.gross_spread = 4
                       /\ e.recommended_action = "KuCoin: Short / Bybit: Long")

\* the scenario: BTC/USDT at 6 on KuCoin and 2 on Bybit, both 8 h; and
\* ETH/USDT with the lower, negative rate on KuCoin
C20_Witness ==
    /\ Matched
    /\ Len(response.data) = 2
    /\ response.data[1] =
          [symbol |-> "BTC/USDT", kucoin_rate |-> 6, bybit_rate |-> 2,
           kucoin_funding_interval |-> 8, bybit_funding_interval |-> 8,
           gross_spread |-> 4, recommended_action |-> "KuCoin: Short / Bybit: Long",
           next_funding_time |-> None]
    /\ response.data[2].kucoin_rate = -2 /\ response.data[2].bybit_rate = 2
    /\ response.data[2].gross_spread = 4
    /\ response.data[2].recommended_action = "KuCoin: Long / Bybit: Short"

C21_ExecutorKeepsSnapshot == [][cache # None => cache' = cache]_vars

OrderCall == calls[1]
OrderReturned == res_a # None /\ calls # <<>> /\ calls[1].op = "place"

\* C22: a place_market_order call on KuCoin sends the order at most twice;
\* it sends it a second time only when the first submission failed with
\* the transient "trading pair does not exist" / 900001 error; and the call
\* ends with a result that is a success with an order id or a failure with
\* an error text
C22_AtMostOneRetry ==
    (OrderReturned /\ OrderCall.venue = "kucoin") =>
        LET r == res_a[1]
            env == OrderCall.sent[1]
        IN  /\ r.submissions \in {0, 1, 2}
            /\ r.submissions = 2 => env.first = "transient"
            /\ r.submissions >= 1 =>
                  env.keys /\ env.markets = "ok" /\ env.listed /\ OrderCall.qty > 0
            /\ \/ r.success /\ r.error = None /\ r.order_id # None
               \/ ~r.success /\ r.error # None /\ r.order_id = None

\* the first submission failed with the transient error, the order was sent
\* again on a fresh connection and went through
C22_Witness ==
    /\ OrderReturned /\ OrderCall.venue = "kucoin"
    /\ OrderCall.sent[1].first = "transient"
    /\ res_a[1].submissions = 2
    /\ res_a[1].success

(* ------------------------------------------------------------------ *)
(* C23: the ledger is append-only and is read newest first             *)
(* ------------------------------------------------------------------ *)
\* the ids of the rows
IdsOf(rows) == {rows[i].id : i \in 1..Len(rows)}

\* rows' is rows with one more row, whose id is above every id of rows
AppendedOneFresh(rows, rows2) ==
    /\ Len(rows2) = Len(rows) + 1
    /\ SubSeq(rows2, 1, Len(rows)) = rows
    /\ \A id \in IdsOf(rows) : rows2[Len(rows2)].id > id

\* the list is the n newest rows of the ledger, newest first
NewestFirst(list, rows, n) ==
    /\ Len(list) = IF n < Len(rows) THEN n ELSE Len(rows)
    /\ \A i \in 1..Len(list) : list[i] = rows[Len(rows) + 1 - i]
    /\ \A i \in 1..Len(list) - 1 : list[i].id > list[i + 1].id

\* C23: every step leaves the ledger as it is or adds exactly one row to
\* it, with an id greater than every id already there, and leaves every
\* earlier row as it was; no step drops or rewrites a row; and the list
\* that GET /api/trades returns holds at most limit rows (the handler
\* passes a limit between 1 and 50), which are the newest rows of the
\* ledger in strictly decreasing order of id
C23_LedgerAppendOnly ==
    [][/\ ledger' = ledger \/ AppendedOneFresh(ledger, ledger')
       /\ response'.kind = "trades" /\ response' # response =>
             /\ Len(response'.trades) <= ClampLimit(response'.limit)
             /\ NewestFirst(response'.trades, ledger, ClampLimit(response'.limit))]_vars

\* two executions have appended a row each to a ledger that had one, and
\* a reader that asked for two rows got the two newest
C23_Witness ==
    /\ Len(ledger) = 3
    /\ response.kind = "trades"
    /\ response.limit = 2
    /\ Len(response.trades) = 2
    /\ response.trades[1] = ledger[3]

(* ------------------------------------------------------------------ *)
(* C24: the order of the venue write calls of one execution            *)
(* ------------------------------------------------------------------ *)
\* the place and close calls among cs, in the order they were issued
WritesIn(cs) == SelectSeq(cs, LAMBDA c : c.op \in {"place", "close"})

\* place_market_order on Bybit was called and returned a failure
LegBRefused == res_b # None /\ ~res_b[1].success

\* C24: a step issues at most one venue write call, after every earlier
\* one has returned; the place on KuCoin is the first write; the place on
\* Bybit is issued only when the place on KuCoin has returned success and
\* nothing else was written since; close_position is issued only on
\* KuCoin, only when the place on KuCoin has returned success and leg B
\* has failed (place_market_order on Bybit returned a failure, or the
\* failure was simulated), and only once
C24_VenueWritesStrictlyOrdered ==
    [][LET before == WritesIn(calls)
           after == WritesIn(calls')
       IN  Len(after) > Len(before) =>
             /\ Len(after) = Len(before) + 1
             /\ LET c == after[Len(after)]
                IN  /\ (c.op = "place" /\ c.venue = "kucoin") => before = <<>>
                    /\ (c.op = "place" /\ c.venue = "bybit") =>
                          /\ LegAPlaced
                          /\ Len(before) = 1
                          /\ before[1].op = "place" /\ before[1].venue = "kucoin"
                    /\ c.op = "close" =>
                          /\ c.venue = "kucoin"
                          /\ LegAPlaced
                          /\ req.simulate_failure \/ LegBRefused
                          /\ \A i \in 1..Len(before) : before[i].op = "place"
                    /\ c.venue \in {"kucoin", "bybit"}]_vars

\* KuCoin was placed, then Bybit was tried and refused, then KuCoin was closed
C24_Witness ==
    LET w == WritesIn(calls)
    IN  /\ Len(w) = 3
        /\ w[1].op = "place" /\ w[1].venue = "kucoin"
        /\ w[2].op = "place" /\ w[2].venue = "bybit"
        /\ w[3].op = "close" /\ w[3].venue = "kucoin"
        /\ LegBRefused

(* ------------------------------------------------------------------ *)
(* C25: the simulated failure of leg B                                 *)
(* ------------------------------------------------------------------ *)
\* the execution is past step 2
PastLegB == pc \in {"rollback", "record", "done", "fault"} /\ LegAPlaced

\* C25: in an execution with simulate_failure set, place_market_order is
\* never called for Bybit; once leg A is placed on KuCoin (by a real
\* place_market_order call) leg B counts as failed, and close_position is
\* then called once on KuCoin for the side and quantity of leg A
C25_SimulatedFailureSkipsBybit ==
    req.simulate_failure =>
        /\ CallsOf("bybit", "place") = <<>>
        /\ res_b = None
        /\ PastLegB =>
              /\ Len(CallsOf("kucoin", "place")) = 1
              /\ CallsOf("kucoin", "place")[1].qty = req.quantity
              /\ ~exchange_b_ok
        /\ (PastLegB /\ pc # "rollback") => OneCloseOfLegA /\ close_res # None

\* a simulated failure after a real leg A, which was then closed
C25_Witness ==
    /\ req.simulate_failure
    /\ Returned
    /\ LegAPlaced
    /\ close_res # None /\ close_res[1].success
    /\ ReturnedStatus("FAILED_ROLLBACK")

(* ------------------------------------------------------------------ *)
(* C26: the executor's directions and the matcher's recommendation     *)
(* ------------------------------------------------------------------ *)
\* the executor has resolved its directions from the snapshot in the cache
DirectionsResolved == pc \in {"prices", "balance", "legA", "legB", "rollback",
                              "record", "done", "fault"}

\* the entries the matcher returns on the cached snapshot for the symbol
\* of the request
MatcherEntries ==
    SelectSeq(Opportunities(cache[1]), LAMBDA e : e.symbol = req.symbol)

\* C26: when the executor has resolved its directions, for every entry the
\* matcher returns for the request's symbol on the same cached snapshot:
\* the executor has KuCoin Short / Bybit Long exactly when the entry
\* recommends "KuCoin: Short / Bybit: Long", and KuCoin Long / Bybit Short
\* otherwise, equal rates included
C26_DirectionsAgreeWithMatcher ==
    DirectionsResolved =>
        \A i \in 1..Len(MatcherEntries) :
            LET e == MatcherEntries[i]
            IN  IF e.recommended_action = "KuCoin: Short / Bybit: Long"
                THEN dirs.kucoin = "Short" /\ dirs.bybit = "Long"
                ELSE /\ e.recommended_action = "KuCoin: Long / Bybit: Short"
                     /\ dirs.kucoin = "Long" /\ dirs.bybit = "Short"

\* the matcher surfaces the symbol with equal rates, and the executor went
\* Long on KuCoin
C26_Witness ==
    /\ DirectionsResolved
    /\ Len(MatcherEntries) = 1
    /\ MatcherEntries[1].kucoin_rate = MatcherEntries[1].bybit_rate
    /\ MatcherEntries[1].gross_spread = 0
    /\ dirs.kucoin = "Long"

(* ------------------------------------------------------------------ *)
(* C27: what holds of a request whose order was issued                 *)
(* ------------------------------------------------------------------ *)
\* the request is within the caps, with the prices read for it
WithinLimits ==
    /\ 0 < req.quantity /\ req.quantity <= MAX_TOKENS
    /\ req.leverage > 0
    /\ OrZero(prices.kucoin_price) > 0 /\ OrZero(prices.bybit_price) > 0
    /\ req.quantity * Max(OrZero(prices.kucoin_price), OrZero(prices.bybit_price))
          <= MAX_NOTIONAL_USDT

\* both balances were read without error and cover the margin
\* quantity * price / leverage of their venue
WithinBalances ==
    /\ balances # None
    /\ ~Truthy(balances[1].kucoin.error) /\ ~Truthy(balances[1].bybit.error)
    /\ req.quantity * OrZero(prices.kucoin_price)
          <= balances[1].kucoin.available_balance * req.leverage
    /\ req.quantity * OrZero(prices.bybit_price)
          <= balances[1].bybit.available_balance * req.leverage

\* the execution was refused by a validation, before leg A
RefusedBeforeLegA == Returned /\ Rejected /\ res_a = None

\* C27: whenever a place_market_order call has been issued, the request
\* has 0 < quantity <= 5, leverage > 0, both mark prices > 0, quantity x
\* the higher mark price <= 20, and on each venue a margin that the
\* balance read from it covers; and a request for which all of this
\* holds, with equality at a cap included, is not refused by the
\* validations: within the caps it gets to the balance check, and with
\* the balances covering the margins it gets to leg A
C27_OrdersOnlyWithinLimits ==
    /\ CallsOp("place") # <<>> => WithinLimits /\ WithinBalances
    /\ WithinLimits => ~(RefusedBeforeLegA /\ balances = None)
    /\ (WithinLimits /\ WithinBalances) => ~RefusedBeforeLegA

\* an order was issued for a request at every cap: 5 tokens, a notional of
\* 20 and a margin equal to the balance on KuCoin
C27_Witness ==
    /\ CallsOp("place") # <<>>
    /\ req.quantity = MAX_TOKENS
    /\ req.quantity * Max(OrZero(prices.kucoin_price), OrZero(prices.bybit_price))
          = MAX_NOTIONAL_USDT
    /\ req.quantity * OrZero(prices.kucoin_price)
          = balances[1].kucoin.available_balance * req.leverage

(* ------------------------------------------------------------------ *)
(* C28: a rejection before leg A has no side effects                   *)
(* ------------------------------------------------------------------ *)
\* the step is the return of a rejection before leg A
RejectsBeforeLegA ==
    /\ pc # "done" /\ pc' = "done"
    /\ response'.kind = "result" /\ ~response'.success /\ response'.status = "null"
    /\ res_a' = None

\* C28: the step by which execute_dual_trade rejects a request before leg
\* A (no mark price, a limit exceeded, a balance that could not be read, a
\* margin above a balance) leaves the ledger, the cached snapshot and its
\* timestamp as they were, and the execution it ends has made no
\* place_market_order or close_position call and has appended no row
C28_RejectionHasNoSideEffects ==
    [][RejectsBeforeLegA =>
         /\ ledger' = ledger /\ ledger' = ledger0
         /\ cache' = cache /\ cache_ts' = cache_ts
         /\ WritesIn(calls') = <<>>
         /\ res_b' = None /\ close_res' = None]_vars

\* a request refused for a margin above the balance, with the balances
\* read, a snapshot in the cache and a row in the ledger
C28_Witness ==
    /\ RefusedBeforeLegA
    /\ balances # None
    /\ ~Truthy(balances[1].kucoin.error) /\ ~Truthy(balances[1].bybit.error)
    /\ cache # None
    /\ ledger = ledger0 /\ Len(ledger) = 1
    /\ WritesIn(calls) = <<>>

(* ------------------------------------------------------------------ *)
(* C29: the cached snapshot is replaced as a whole                     *)
(* ------------------------------------------------------------------ *)
\* the section is what a finished fetch of a venue leaves: an error with no
\* rows, or the rows with their count
SectionFetched(section) == \E f \in ThreadFetchResults : section = Section(f)

\* both venue sections of the snapshot come from finished fetches
Completed(data) == SectionFetched(data.kucoin) /\ SectionFetched(data.bybit)

\* C29: with callers of fetch_all_market_data interleaved in any way,
\* every snapshot a caller has been handed and every snapshot in the cache
\* has both venue sections filled in by finished fetches, never one
\* section filled and the other still as the summary started; and the
\* snapshot in the cache changes only by a caller storing its finished
\* summary in place of it, as a whole
C29_SnapshotReplacedAtomically ==
    [][/\ cache' # None => Completed(cache'[1])
       /\ \A w \in Threads :
             fetchers'[w].got # None => Completed(fetchers'[w].got[1])
       /\ cache' # cache =>
             \E w \in Threads :
                /\ fetchers[w].pc = "store"
                /\ fetchers'[w].pc = "done"
                /\ Completed(fetchers[w].summary)
                /\ cache' = Some(fetchers[w].summary)]_vars

\* a caller was handed the cached snapshot while another caller's refresh
\* had fetched KuCoin and not yet Bybit
C29_Witness ==
    \E w1 \in Threads, w2 \in Threads :
        /\ fetchers[w1].pc = "bybit"
        /\ ~Completed(fetchers[w1].summary)
        /\ fetchers[w2].pc = "done"
        /\ fetchers[w2].got = cache
        /\ fetchers[w2].t > cache_ts

(* ------------------------------------------------------------------ *)
(* C30: the next funding time of an opportunity                        *)
(* ------------------------------------------------------------------ *)
\* the matcher or the screener's handler has answered from the snapshot
Listed == response.kind \in {"opportunities", "screener"} /\ cache # None

\* C30: every entry the matcher returns, on its own or through the
\* screener's handler, carries Bybit's next_funding_time for its symbol
\* when the snapshot has one, otherwise KuCoin's, and none only when the
\* snapshot has neither
C30_BybitTimePreferred ==
    Listed =>
        \A i \in 1..Len(response.data) :
            LET e == response.data[i]
                bybit_next == VenueRow("bybit", e.symbol).next_funding_time
                kucoin_next == VenueRow("kucoin", e.symbol).next_funding_time
            IN  /\ bybit_next # None => e.next_funding_time = bybit_next
                /\ bybit_next = None => e.next_funding_time = kucoin_next
                /\ e.next_funding_time = None <=>
                      (bybit_next = None /\ kucoin_next = None)

\* the venues give different times for BTC/USDT and the entry has Bybit's
C30_Witness ==
    /\ Listed
    /\ Len(response.data) >= 1
    /\ response.data[1].symbol = "BTC/USDT"
    /\ VenueRow("kucoin", "BTC/USDT").next_funding_time = Some(1)
    /\ VenueRow("bybit", "BTC/USDT").next_funding_time = Some(2)
    /\ response.data[1].next_funding_time = Some(2)

(* ------------------------------------------------------------------ *)
(* C31: every other venue error ends the call                          *)
(* ------------------------------------------------------------------ *)
\* C31: in place_market_order a venue error that is not the transient
\* 900001 / "trading pair does not exist" error ends the call: the order
\* is not sent again and the result is success=false with the error text;
\* an error of the second submission ends the call the same way; and on
\* Bybit the order is never sent twice, whatever the error
C31_OtherErrorsAreTerminal ==
    OrderReturned =>
        LET r == res_a[1]
            env == OrderCall.sent[1]
            sent == env.keys /\ env.markets = "ok" /\ env.listed /\ OrderCall.qty > 0
        IN  /\ (sent /\ env.first = "error") =>
                r.submissions = 1 /\ ~r.success /\ r.error = Some("venue error")
            /\ (sent /\ OrderCall.venue = "kucoin" /\ env.first = "transient"
                      /\ env.second = "error") =>
                r.submissions = 2 /\ ~r.success /\ r.error = Some("venue error")
            /\ OrderCall.venue = "bybit" => r.submissions <= 1
            /\ (sent /\ OrderCall.venue = "bybit" /\ env.first # "ok") =>
                r.submissions = 1 /\ ~r.success /\ r.error = Some("venue error")

\* KuCoin answered the first submission with an error of another class and
\* the call returned the failure after that one submission
C31_Witness ==
    /\ OrderReturned /\ OrderCall.venue = "kucoin"
    /\ OrderCall.sent[1].keys /\ OrderCall.sent[1].markets = "ok"
    /\ OrderCall.sent[1].listed /\ OrderCall.qty > 0
    /\ OrderCall.sent[1].first = "error"
    /\ res_a[1].submissions = 1
    /\ ~res_a[1].success

(* ------------------------------------------------------------------ *)
(* C32: the logs of a response, entry by entry                         *)
(* ------------------------------------------------------------------ *)
\* logs2 is logs, or logs with one entry added at the end
AppendedAtMostOne(logs1, logs2) ==
    \/ logs2 = logs1
    \/ /\ Len(logs2) = Len(logs1) + 1
       /\ SubSeq(logs2, 1, Len(logs1)) = logs1

\* an entry as the caller reads it
Line(who, step, outcome, detail) ==
    [who |-> who, step |-> step, outcome |-> outcome, detail |-> detail]

KucoinPlaceOK == Line("KuCoin", "place", "OK", dirs.kucoin)
BybitPlaceOK == Line("Bybit", "place", "OK", dirs.bybit)

\* the entries of the state, for each outcome of the execution
LogsOfOutcome ==
    /\ LegAPlaced => Len(logs) >= 1 /\ logs[1] = KucoinPlaceOK
    /\ ReturnedStatus("OPEN") =>
          logs = <<KucoinPlaceOK, BybitPlaceOK,
                   Line("-", "ledger", "OK", "Trade logged as OPEN")>>
    /\ ReturnedStatus("FAILED_ROLLBACK") =>
          /\ Len(logs) = 3
          /\ logs[1] = KucoinPlaceOK
          /\ logs[2] \in {Line("Bybit", "place", "FAILED", "simulated"),
                          Line("Bybit", "place", "FAILED", "venue error"),
                          Line("Bybit", "place", "FAILED", "Symbol not found"),
                          Line("Bybit", "place", "FAILED", "API keys not configured")}
          /\ logs[3] = (IF close_res[1].success
                        THEN Line("KuCoin", "rollback", "OK", "")
                        ELSE Line("KuCoin", "rollback", "FAILED", close_res[1].error[1]))
    /\ (Returned /\ LegAFailedNow) =>
          logs = <<Line("KuCoin", "place", "FAILED", res_a[1].error[1])>>

\* C32: the logs of a response are built by appending, one entry per step
\* and in the order of the steps. Once leg A is placed the first entry is
\* KuCoin's place OK; an OPEN response has exactly KuCoin place OK, Bybit
\* place OK, "Trade logged as OPEN"; a FAILED_ROLLBACK response has exactly
\* KuCoin place OK, Bybit place FAILED, KuCoin rollback OK or FAILED; a
\* response to a failed leg A has the one entry KuCoin place FAILED
C32_LogsFollowTheSteps ==
    [][AppendedAtMostOne(logs, logs') /\ LogsOfOutcome']_vars

\* a FAILED_ROLLBACK response whose rollback failed as well
C32_Witness ==
    /\ ReturnedStatus("FAILED_ROLLBACK")
    /\ res_b # None /\ ~res_b[1].success
    /\ ~close_res[1].success
    /\ Len(logs) = 3
    /\ logs[3].outcome = "FAILED"

(* ------------------------------------------------------------------ *)
(* C33: the order of the screener's list                               *)
(* ------------------------------------------------------------------ *)
\* the handler answered a request from the snapshot the cache holds
Asked == response.kind = "screener" /\ cache # None

\* the matcher's list after the filter of the request
Filtered == FilterBySearch(Opportunities(cache[1]), response.query.search)

\* list is in the order the mode asks for
InOrder(list, sort_by) ==
    \A i \in 1..Len(list) : \A j \in (i + 1)..Len(list) :
        LET a == list[i]
            b == list[j]
        IN  CASE sort_by = "optimal" ->
                   \/ a.kucoin_funding_interval < b.kucoin_funding_interval
                   \/ /\ a.kucoin_funding_interval = b.kucoin_funding_interval
                      /\ a.gross_spread >= b.gross_spread
              [] sort_by = "interval" ->
                   /\ a.next_funding_time = None => b.next_funding_time = None
                   /\ (a.next_funding_time # None /\ b.next_funding_time # None)
                         => a.next_funding_time[1] <= b.next_funding_time[1]
              [] OTHER -> a.gross_spread >= b.gross_spread

\* a and b hold the same entries, each as often
IsPermutation(a, b) ==
    /\ Len(a) = Len(b)
    /\ \E f \in [1..Len(a) -> 1..Len(a)] :
         /\ \A i, j \in 1..Len(a) : f[i] = f[j] => i = j
         /\ \A i \in 1..Len(a) : a[i] = b[f[i]]

\* C33: the list the screener pages is ordered by its sort mode: "optimal"
\* by funding interval ascending and, for equal intervals, by gross spread
\* descending; "interval" by next_funding_time ascending with the entries
\* that have no time last; any other mode by gross spread descending. The
\* sorted list is a permutation of the filtered list. Every page is in that
\* order, and a page that holds all items is a permutation of the filtered
\* list
C33_SortedByMode ==
    Asked =>
        LET sort_by == response.query.sort_by
            whole == SortedBy(Filtered, sort_by)
        IN  /\ InOrder(whole, sort_by)
            /\ IsPermutation(whole, Filtered)
            /\ InOrder(response.data, sort_by)
            /\ Len(response.data) = response.total_items
                  => IsPermutation(response.data, Filtered)

\* three entries of one interval come back by falling spread, which is not
\* the order the matcher listed them in
C33_Witness ==
    /\ Asked
    /\ response.query.sort_by = "optimal"
    /\ Len(response.data) = 3
    /\ response.data[1].kucoin_funding_interval = response.data[3].kucoin_funding_interval
    /\ response.data[1].gross_spread > response.data[2].gross_spread
    /\ response.data[2].gross_spread > response.data[3].gross_spread
    /\ response.data # Filtered

(* ------------------------------------------------------------------ *)
(* C34: the pages of the screener                                      *)
(* ------------------------------------------------------------------ *)
\* the least k with k * d >= n, for d > 0
CeilDiv(n, d) == CHOOSE k \in 0..n : k * d >= n /\ (k - 1) * d < n

RECURSIVE PagesUpTo(_, _, _)
\* the slices of pages 1..p of the list, one after the other
PagesUpTo(full, p, limit) ==
    IF p = 0 THEN <<>>
    ELSE PagesUpTo(full, p - 1, limit) \o Page(full, p, limit).data

\* C34: for any page argument and any limit > 0, total_pages is
\* max(1, ceil(total_items / limit)), current_page is the requested page
\* clamped into 1..total_pages, the slice returned holds at most limit
\* items and is that page's part of the sorted list, and the slices of
\* pages 1..total_pages one after the other are the sorted list, every
\* item once
C34_PagesPartitionTheList ==
    (Asked /\ response.query.limit > 0) =>
        LET q == response.query
            whole == SortedBy(Filtered, q.sort_by)
            n == Len(whole)
            first == (response.current_page - 1) * q.limit
        IN  /\ response.total_items = n
            /\ response.total_pages = Max(1, CeilDiv(n, q.limit))
            /\ response.current_page =
                  (IF q.page < 1 THEN 1
                   ELSE IF q.page > response.total_pages THEN response.total_pages
                   ELSE q.page)
            /\ Len(response.data) <= q.limit
            /\ response.data = SubSeq(whole, first + 1, Min(first + q.limit, n))
            /\ PagesUpTo(whole, response.total_pages, q.limit) = whole

\* three items in pages of two: a page argument beyond the last page gets
\* the second page, which holds the third item
C34_Witness ==
    /\ Asked
    /\ response.query.limit = 2
    /\ response.query.page = 4
    /\ response.total_items = 3
    /\ response.total_pages = 2
    /\ response.current_page = 2
    /\ Len(response.data) = 1

(* ------------------------------------------------------------------ *)
(* C35: the two legs are a hedge                                       *)
(* ------------------------------------------------------------------ *)
\* C35: in every execution the side sent to KuCoin and the side sent to
\* Bybit are opposite, one buy and one sell, and both orders carry the
\* quantity and the leverage of the request, whatever the snapshot says
\* about the funding rates: the sides execute_dual_trade derives from the
\* resolved directions are opposite as soon as they are resolved, and
\* every place call in the spy has its venue's side
C35_LegsAreAHedge ==
    /\ DirectionsResolved =>
          {OrderSide(dirs.kucoin), OrderSide(dirs.bybit)} = {"buy", "sell"}
    /\ \A i \in 1..Len(CallsOp("place")) :
          LET c == CallsOp("place")[i]
          IN  /\ c.side = OrderSide(IF c.venue = "kucoin" THEN dirs.kucoin
                                                           ELSE dirs.bybit)
              /\ c.qty = req.quantity
              /\ c.leverage = req.leverage
    /\ \A i \in 1..Len(CallsOf("kucoin", "place")) :
          \A j \in 1..Len(CallsOf("bybit", "place")) :
             LET a == CallsOf("kucoin", "place")[i]
                 b == CallsOf("bybit", "place")[j]
             IN  /\ {a.side, b.side} = {"buy", "sell"}
                 /\ a.qty = b.qty
                 /\ a.leverage = b.leverage

\* both legs were sent while the snapshot has no rate for the symbol on
\* one venue: KuCoin buys and Bybit sells the same quantity
C35_Witness ==
    /\ Len(CallsOf("kucoin", "place")) = 1
    /\ Len(CallsOf("bybit", "place")) = 1
    /\ CachedRate("kucoin") = None
    /\ CallsOf("kucoin", "place")[1].side = "buy"
    /\ CallsOf("bybit", "place")[1].side = "sell"
    /\ CallsOf("bybit", "place")[1].qty = MAX_TOKENS

(* ------------------------------------------------------------------ *)
(* C36: orders and the funding rates of the snapshot                   *)
(* ------------------------------------------------------------------ *)
\* C36: execute_dual_trade places an order only for a symbol whose funding
\* rate is known on both venues in the snapshot it resolved the directions
\* from; a symbol that a venue's section does not list, or lists with a
\* null rate, is never traded with a defaulted direction
C36_OrdersOnlyWithKnownRates ==
    CallsOp("place") # <<>> =>
        /\ CachedRate("kucoin") # None
        /\ CachedRate("bybit") # None

\* what the code does instead: with a rate unknown the directions are the
\* default, KuCoin Long and Bybit Short, and the orders go out with them
C36_UnknownRateTradesDefault ==
    (DirectionsResolved /\ (CachedRate("kucoin") = None \/ CachedRate("bybit") = None))
        => /\ dirs = [kucoin |-> "Long", bybit |-> "Short"]
           /\ \A i \in 1..Len(CallsOf("kucoin", "place")) :
                 CallsOf("kucoin", "place")[i].side = "buy"

(* ------------------------------------------------------------------ *)
(* C37: a balance that could not be read                               *)
(* ------------------------------------------------------------------ *)
\* get_wallet_balance reported an error for a venue
BalanceErrorReported ==
    /\ balances # None
    /\ balances[1].kucoin.error # None \/ balances[1].bybit.error # None

\* C37: when get_wallet_balance reports an error for either venue (keys
\* not configured, an API error, whose text may be empty), the available
\* balance it reports is 0 and execute_dual_trade rejects the request
\* with success=false and status=null, for every quantity, leverage and
\* price that reached the balance check; it places and closes no order and
\* appends no row
C37_BalanceErrorRejects ==
    BalanceErrorReported =>
        /\ \A v \in {balances[1].kucoin, balances[1].bybit} :
              v.error # None => v.available_balance = 0
        /\ Returned
        /\ Rejected
        /\ NoOrderCalls
        /\ res_a = None
        /\ ledger = ledger0

\* KuCoin's balance covers the margin and Bybit's could not be read
C37_Witness ==
    /\ BalanceErrorReported
    /\ balances[1].kucoin.error = None
    /\ balances[1].kucoin.available_balance = MaxBalance
    /\ balances[1].bybit.error = Some("API keys not configured")
    /\ req.quantity = 1
    /\ Rejected

(* ------------------------------------------------------------------ *)
(* C38: a snapshot with a failed venue is cached like any other        *)
(* ------------------------------------------------------------------ *)
\* the cache holds a snapshot in which a venue's fetch failed
ErrorCached ==
    /\ cache # None
    /\ cache[1].kucoin.error # None \/ cache[1].bybit.error # None

\* C38: a refresh result is cached also when a venue's fetch failed: while
\* that snapshot is younger than 60 s no venue is fetched, the snapshot
\* stays in the cache, and every call of fetch_all_market_data that starts
\* returns it; the failed venue is fetched again only by a refresh that
\* starts when the snapshot is 60 s old
C38_ErrorSnapshotServedForTTL ==
    [][(ErrorCached /\ CacheFresh) =>
         /\ calls' = calls
         /\ cache' = cache /\ cache_ts' = cache_ts
         /\ \A w \in Threads :
               (fetchers[w].pc \in {"idle", "done"} /\ fetchers'[w] # fetchers[w])
                  => fetchers'[w].pc = "done" /\ fetchers'[w].got = cache]_vars

\* with the calls one after another the same holds: a call made while the
\* snapshot with the failed venue is younger than 60 s fetches nothing,
\* leaves the cache alone and answers from it; a refresh stores what it
\* fetched, a failed venue included, with the time of the call
C38_HoldsForCallsInTurn ==
    [][now' = now =>
         /\ (ErrorCached /\ CacheFresh) =>
               /\ calls' = calls
               /\ cache' = cache /\ cache_ts' = cache_ts
               /\ response' = MarketDataResponse(cache[1])
         /\ calls' # calls =>
               /\ ~CacheFresh
               /\ cache_ts' = now
               /\ cache'[1].kucoin.error # None
                     <=> calls'[Len(calls') - 1].sent[1].raised
               /\ cache'[1].bybit.error # None
                     <=> calls'[Len(calls')].sent[1].raised]_vars

(* ------------------------------------------------------------------ *)
(* C39: the order adapters return their failures                       *)
(* ------------------------------------------------------------------ *)
\* the call of close_position that has returned
CloseReturned == close_res # None /\ calls # <<>> /\ calls[1].op = "close"

\* C39: place_market_order and close_position hand their caller a result
\* whatever the venue does: an exception raised inside them (by
\* load_markets, by a submission of the order) becomes success=false with
\* an error that is not null; success=true is returned only when the last
\* submission of the order returned without raising; and
\* place_market_order submits no order when the API keys are missing or
\* the amount is not positive
C39_AdaptersReturnFailures ==
    /\ OrderReturned =>
          LET r == res_a[1]
              env == OrderCall.sent[1]
          IN  /\ r.success \in BOOLEAN
              /\ ~r.success => r.error # None
              /\ r.success =>
                    /\ r.error = None
                    /\ r.submissions >= 1
                    /\ (IF r.submissions = 1 THEN env.first ELSE env.second) = "ok"
              /\ (env.keys /\ env.markets = "error") =>
                    ~r.success /\ r.error # None /\ r.submissions = 0
              /\ (~env.keys \/ OrderCall.qty <= 0) =>
                    ~r.success /\ r.submissions = 0
    /\ CloseReturned =>
          LET r == close_res[1]
              env == calls[1].sent[1]
          IN  /\ r.success \in BOOLEAN
              /\ ~r.success => r.error # None
              /\ r.success => r.error = None /\ r.sent # None /\ env.order = "ok"
              /\ (env.keys /\ env.markets = "error") =>
                    ~r.success /\ r.error # None /\ r.sent = None
              /\ (r.sent # None /\ env.order = "error") =>
                    ~r.success /\ r.error # None

\* load_markets raised in a place_market_order call with the keys set and
\* a positive amount: the caller got success=false with the error text
C39_Witness ==
    /\ OrderReturned
    /\ OrderCall.sent[1].keys
    /\ OrderCall.sent[1].markets = "error"
    /\ OrderCall.qty > 0
    /\ ~res_a[1].success
    /\ res_a[1].error = Some("venue error")
    /\ res_a[1].submissions = 0

====
